---- MODULE Spec2Model ----
(***************************************************************************)
(* Model of the redis-clone master/replica core: the RESP codec            *)
(* (resp.rs), the command layer (command.rs, arguments.rs, internals.rs),  *)
(* the keyspace (database.rs), the per-connection dispatcher (context.rs)  *)
(* and the replication ledger (history.rs).                                *)
(*                                                                         *)
(* Bytes are integers 0..255; a byte string is a sequence of bytes.        *)
(* A cursor position is the 1-based index of the next unread byte.         *)
(***************************************************************************)
EXTENDS Integers, Sequences, FiniteSets, TLC

\* ------------------------------------------------------------------------
\* Byte constants and the literal strings of the source
\* ------------------------------------------------------------------------
CR == 13
LF == 10
SPACE == 32
MINUS == 45
PLUS == 43
ZERO == 48
NINE == 57

STR_PING == <<80, 73, 78, 71>>  \* 'PING'
STR_INFO == <<73, 78, 70, 79>>  \* 'INFO'
STR_ECHO == <<69, 67, 72, 79>>  \* 'ECHO'
STR_GET == <<71, 69, 84>>  \* 'GET'
STR_SET == <<83, 69, 84>>  \* 'SET'
STR_REPLCONF == <<82, 69, 80, 76, 67, 79, 78, 70>>  \* 'REPLCONF'
STR_PSYNC == <<80, 83, 89, 78, 67>>  \* 'PSYNC'
STR_NX == <<78, 88>>  \* 'NX'
STR_XX == <<88, 88>>  \* 'XX'
STR_EX == <<69, 88>>  \* 'EX'
STR_PX == <<80, 88>>  \* 'PX'
STR_LISTENING_PORT == <<76, 73, 83, 84, 69, 78, 73, 78, 71, 45, 80, 79, 82, 84>>  \* 'LISTENING-PORT'
STR_CAPA == <<67, 65, 80, 65>>  \* 'CAPA'
STR_GETACK == <<71, 69, 84, 65, 67, 75>>  \* 'GETACK'
STR_ACK == <<65, 67, 75>>  \* 'ACK'
STR_PONG == <<80, 79, 78, 71>>  \* 'PONG'
STR_OK == <<79, 75>>  \* 'OK'
STR_FULLRESYNC == <<70, 85, 76, 76, 82, 69, 83, 89, 78, 67>>  \* 'FULLRESYNC'
MASTER_REPLID == <<56, 51, 55, 49, 98, 52, 102, 98, 49, 49, 53, 53, 98, 55, 49, 102, 52, 97, 48, 52, 100, 51, 101, 49, 98, 99, 51, 101, 49, 56, 99, 52, 97, 57, 57, 48, 97, 101, 101, 98>>  \* '8371b4fb1155b71f4a04d3e1bc3e18c4a990aeeb'
STR_ROLE == <<114, 111, 108, 101, 58>>  \* 'role:'
STR_MASTER == <<109, 97, 115, 116, 101, 114>>  \* 'master'
STR_MASTER_REPLID == <<13, 10, 109, 97, 115, 116, 101, 114, 95, 114, 101, 112, 108, 105, 100, 58>>  \* '\r\nmaster_replid:'
STR_MASTER_REPL_OFFSET == <<13, 10, 109, 97, 115, 116, 101, 114, 95, 114, 101, 112, 108, 95, 111, 102, 102, 115, 101, 116, 58>>  \* '\r\nmaster_repl_offset:'
ERR_PROTOCOL == <<69, 82, 82, 32, 82, 69, 83, 80, 32, 80, 114, 111, 116, 111, 99, 111, 108, 32, 69, 114, 114, 111, 114>>  \* 'ERR RESP Protocol Error'
ERR_PREFIX == <<69, 82, 82, 32>>  \* 'ERR '
ERR_UNSUPPORTED_SEQ == <<69, 82, 82, 32, 117, 110, 115, 117, 112, 112, 111, 114, 116, 101, 100, 32, 112, 114, 111, 116, 111, 99, 111, 108, 32, 115, 101, 113, 117, 101, 110, 99, 101>>  \* 'ERR unsupported protocol sequence'
MSG_MALFORMED_NAME == <<109, 97, 108, 102, 111, 114, 109, 101, 100, 32, 99, 111, 109, 109, 97, 110, 100, 32, 110, 97, 109, 101>>  \* 'malformed command name'
MSG_EXPECTED_ARRAY == <<101, 120, 112, 101, 99, 116, 101, 100, 32, 97, 114, 114, 97, 121, 32, 111, 102, 32, 97, 114, 103, 115>>  \* 'expected array of args'
MSG_ECHO_ARGS == <<69, 82, 82, 32, 119, 114, 111, 110, 103, 32, 110, 117, 109, 98, 101, 114, 32, 111, 102, 32, 97, 114, 103, 117, 109, 101, 110, 116, 115, 32, 102, 111, 114, 32, 39, 101, 99, 104, 111, 39, 32, 99, 111, 109, 109, 97, 110, 100>>  \* "ERR wrong number of arguments for 'echo' command"
MSG_MUST_BE_BULK == <<69, 82, 82, 32, 97, 114, 103, 117, 109, 101, 110, 116, 32, 109, 117, 115, 116, 32, 98, 101, 32, 97, 32, 98, 117, 108, 107, 32, 115, 116, 114, 105, 110, 103>>  \* 'ERR argument must be a bulk string'
MSG_KEY_BULK == <<69, 82, 82, 32, 107, 101, 121, 32, 109, 117, 115, 116, 32, 98, 101, 32, 97, 32, 98, 117, 108, 107, 32, 115, 116, 114, 105, 110, 103>>  \* 'ERR key must be a bulk string'
MSG_NOT_UTF8 == <<69, 82, 82, 32, 97, 114, 103, 117, 109, 101, 110, 116, 32, 110, 111, 116, 32, 117, 116, 102, 56>>  \* 'ERR argument not utf8'
MSG_SECONDS_FORMAT == <<69, 82, 82, 32, 105, 110, 118, 97, 108, 105, 100, 32, 115, 101, 99, 111, 110, 100, 115, 32, 102, 111, 114, 109, 97, 116>>  \* 'ERR invalid seconds format'
MSG_SECONDS_VALUE == <<69, 82, 82, 32, 105, 110, 118, 97, 108, 105, 100, 32, 115, 101, 99, 111, 110, 100, 115, 32, 118, 97, 108, 117, 101>>  \* 'ERR invalid seconds value'
MSG_EXPECTED_SECONDS == <<69, 82, 82, 32, 101, 120, 112, 101, 99, 116, 101, 100, 32, 115, 101, 99, 111, 110, 100, 115, 32, 97, 102, 116, 101, 114, 32, 39, 69, 88, 39>>  \* "ERR expected seconds after 'EX'"
MSG_MS_FORMAT == <<69, 82, 82, 32, 105, 110, 118, 97, 108, 105, 100, 32, 109, 105, 108, 108, 105, 115, 101, 99, 111, 110, 100, 115, 32, 102, 111, 114, 109, 97, 116>>  \* 'ERR invalid milliseconds format'
MSG_MS_VALUE == <<69, 82, 82, 32, 105, 110, 118, 97, 108, 105, 100, 32, 109, 105, 108, 108, 105, 115, 101, 99, 111, 110, 100, 115, 32, 118, 97, 108, 117, 101>>  \* 'ERR invalid milliseconds value'
MSG_EXPECTED_MS == <<69, 82, 82, 32, 101, 120, 112, 101, 99, 116, 101, 100, 32, 109, 105, 108, 108, 105, 115, 101, 99, 111, 110, 100, 115, 32, 97, 102, 116, 101, 114, 32, 39, 80, 88, 39>>  \* "ERR expected milliseconds after 'PX'"
MSG_UNKNOWN_ARG == <<69, 82, 82, 32, 117, 110, 107, 110, 111, 119, 110, 32, 111, 114, 32, 117, 110, 101, 120, 112, 101, 99, 116, 101, 100, 32, 97, 114, 103, 117, 109, 101, 110, 116>>  \* 'ERR unknown or unexpected argument'
MSG_ARGS_BULK == <<69, 82, 82, 32, 97, 114, 103, 117, 109, 101, 110, 116, 115, 32, 109, 117, 115, 116, 32, 98, 101, 32, 98, 117, 108, 107, 32, 115, 116, 114, 105, 110, 103, 115>>  \* 'ERR arguments must be bulk strings'
MSG_EXPECTED_ARG == <<69, 82, 82, 32, 101, 120, 112, 101, 99, 116, 101, 100, 32, 97, 114, 103, 117, 109, 101, 110, 116>>  \* 'ERR expected argument'
MSG_CONVERSION == <<69, 82, 82, 32, 97, 114, 103, 117, 109, 101, 110, 116, 32, 99, 111, 110, 118, 101, 114, 115, 105, 111, 110, 32, 102, 97, 105, 108, 101, 100>>  \* 'ERR argument conversion failed'
MSG_TOO_MANY == <<69, 82, 82, 32, 116, 111, 111, 32, 109, 97, 110, 121, 32, 97, 114, 103, 117, 109, 101, 110, 116, 115>>  \* 'ERR too many arguments'
EMPTY_RDB == <<82, 69, 68, 73, 83, 48, 48, 49, 49, 250, 9, 114, 101, 100, 105, 115, 45, 118, 101, 114, 5, 55, 46, 50, 46, 48, 250, 10, 114, 101, 100, 105, 115, 45, 98, 105, 116, 115, 192, 64, 250, 5, 99, 116, 105, 109, 101, 194, 109, 8, 188, 101, 250, 8, 117, 115, 101, 100, 45, 109, 101, 109, 194, 176, 196, 16, 0, 250, 8, 97, 111, 102, 45, 98, 97, 115, 101, 192, 0, 255, 240, 110, 59, 254, 192, 255, 90, 162>>

\* get_empty_rdb_file(): the hex literal decoded, 88 bytes.
get_empty_rdb_file == EMPTY_RDB

CRLF == <<CR, LF>>

\* ------------------------------------------------------------------------
\* Resp values (resp.rs, enum Resp)
\* ------------------------------------------------------------------------
SimpleString(s) == [t |-> "SimpleString", v |-> s]
SimpleError(s) == [t |-> "SimpleError", v |-> s]
Integer(i) == [t |-> "Integer", v |-> i]
BulkString(b) == [t |-> "BulkString", v |-> b]
BulkStringNull == [t |-> "BulkStringNull"]
Array(a) == [t |-> "Array", v |-> a]
ArrayNull == [t |-> "ArrayNull"]
Null == [t |-> "Null"]
Boolean(b) == [t |-> "Boolean", v |-> b]
BigNumber(n) == [t |-> "BigNumber", v |-> n]
BulkError(e) == [t |-> "BulkError", v |-> e]
VerbatimString(s) == [t |-> "VerbatimString", v |-> s]
Map(m) == [t |-> "Map", v |-> m]
Set(s) == [t |-> "Set", v |-> s]
Push(p) == [t |-> "Push", v |-> p]
Double(f) == [t |-> "Double", v |-> f]

\* Result<T, ParseError> of the parser, together with the cursor after it.
Ok(v, p) == [ok |-> TRUE, val |-> v, pos |-> p]
Err(e) == [ok |-> FALSE, err |-> e]

\* String::from_utf8 / str::from_utf8.  The byte alphabet of the model is
\* ASCII plus the byte 255, which no UTF-8 text contains.
IsUtf8(bs) == \A i \in 1..Len(bs) : bs[i] < 128

IsDigit(b) == b >= ZERO /\ b <= NINE

RECURSIVE DigitsValue(_)
DigitsValue(ds) ==
    IF ds = <<>> THEN 0
    ELSE DigitsValue(SubSeq(ds, 1, Len(ds) - 1)) * 10 + (ds[Len(ds)] - ZERO)

\* Longest digit string whose value is computed; longer headers do not occur
\* in the frames of the model.
MaxDigits == 9

\* str::parse::<i64>(): optional sign, then one or more decimal digits.
parse_i64(bs) ==
    LET signed == Len(bs) > 0 /\ bs[1] \in {PLUS, MINUS}
        ds == IF signed THEN Tail(bs) ELSE bs
    IN  IF ds = <<>> \/ Len(ds) > MaxDigits \/ \E i \in 1..Len(ds) : ~IsDigit(ds[i])
        THEN [ok |-> FALSE]
        ELSE [ok |-> TRUE,
              val |-> IF signed /\ bs[1] = MINUS THEN 0 - DigitsValue(ds) ELSE DigitsValue(ds)]

\* usize::to_string / i64::to_string
RECURSIVE NatToString(_)
NatToString(n) ==
    IF n < 10 THEN <<ZERO + n>>
    ELSE NatToString(n \div 10) \o <<ZERO + (n % 10)>>

to_string(i) == IF i < 0 THEN <<MINUS>> \o NatToString(0 - i) ELSE NatToString(i)

\* f64.  A finite value is held as its shortest decimal form,
\* d1.d2..dn * 10^exp with d1 # 0 and dn # 0 (no digit at all for zero), which
\* is what parsing and formatting an f64 of at most fifteen significant
\* digits keep; the other values are inf, -inf and nan.
INFINITY == [kind |-> "inf"]
NEG_INFINITY == [kind |-> "-inf"]
NAN == [kind |-> "nan"]
Finite(neg, digits, exp) == [kind |-> "fin", neg |-> neg, digits |-> digits, exp |-> exp]

to_lowercase(bs) ==
    [i \in 1..Len(bs) |-> IF bs[i] >= 65 /\ bs[i] <= 90 THEN bs[i] + 32 ELSE bs[i]]

\* Index of the first byte of bs that is in set, 0 when there is none
RECURSIVE IndexOf(_, _, _)
IndexOf(bs, set, i) ==
    IF i > Len(bs) THEN 0
    ELSE IF bs[i] \in set THEN i ELSE IndexOf(bs, set, i + 1)

RECURSIVE StripLeadingZeros(_)
StripLeadingZeros(ds) ==
    IF ds # <<>> /\ Head(ds) = ZERO THEN StripLeadingZeros(Tail(ds)) ELSE ds

RECURSIVE StripTrailingZeros(_)
StripTrailingZeros(ds) ==
    IF ds # <<>> /\ ds[Len(ds)] = ZERO
    THEN StripTrailingZeros(SubSeq(ds, 1, Len(ds) - 1)) ELSE ds

AllDigits(ds) == \A i \in 1..Len(ds) : IsDigit(ds[i])

\* Largest decimal exponent, digits of the mantissa counted in, whose value
\* is computed: below it no decimal overflows to an infinity or underflows
\* to zero.
MaxExponent == 99

\* str::parse::<f64>(): [sign] (inf | infinity | nan), in any case, or
\* [sign] digits [. digits] [(e | E) [sign] digits] with a digit in the
\* mantissa.
parse_f64(bs) ==
    LET signed == Len(bs) > 0 /\ bs[1] \in {PLUS, MINUS}
        neg == signed /\ bs[1] = MINUS
        body == IF signed THEN Tail(bs) ELSE bs
        low == to_lowercase(body)
        e == IndexOf(body, {69, 101}, 1)
        mant == IF e = 0 THEN body ELSE SubSeq(body, 1, e - 1)
        expo == IF e = 0 THEN <<>> ELSE SubSeq(body, e + 1, Len(body))
        dot == IndexOf(mant, {46}, 1)
        int_part == IF dot = 0 THEN mant ELSE SubSeq(mant, 1, dot - 1)
        frac_part == IF dot = 0 THEN <<>> ELSE SubSeq(mant, dot + 1, Len(mant))
        exp_value == IF e = 0 THEN [ok |-> TRUE, val |-> 0] ELSE parse_i64(expo)
        all == int_part \o frac_part
        significant == StripLeadingZeros(all)
        digits == StripTrailingZeros(significant)
    IN  IF low = <<105, 110, 102>> \/ low = <<105, 110, 102, 105, 110, 105, 116, 121>>
        THEN [ok |-> TRUE, val |-> IF neg THEN NEG_INFINITY ELSE INFINITY]
        ELSE IF low = <<110, 97, 110>> THEN [ok |-> TRUE, val |-> NAN]
        ELSE IF all = <<>> \/ ~AllDigits(all) \/ Len(all) > MaxDigits THEN [ok |-> FALSE]
        ELSE IF ~exp_value.ok THEN [ok |-> FALSE]
        ELSE IF exp_value.val + Len(all) > MaxExponent
                \/ Len(all) - exp_value.val > MaxExponent THEN [ok |-> FALSE]
        ELSE IF digits = <<>> THEN [ok |-> TRUE, val |-> Finite(neg, <<>>, 0)]
        ELSE [ok |-> TRUE,
              val |-> Finite(neg, digits,
                             Len(int_part) - 1 - (Len(all) - Len(significant))
                                 + exp_value.val)]

Zeros(n) == [i \in 1..n |-> ZERO]

\* impl Display for f64 (f.to_string()): the decimal form, no exponent
f64_to_string(f) ==
    CASE f.kind = "inf" -> <<105, 110, 102>>
      [] f.kind = "-inf" -> <<MINUS, 105, 110, 102>>
      [] f.kind = "nan" -> <<78, 97, 78>>
      [] OTHER ->
            LET n == Len(f.digits)
                sign == IF f.neg THEN <<MINUS>> ELSE <<>>
            IN  sign \o
                (IF n = 0 THEN <<ZERO>>
                 ELSE IF f.exp >= n - 1 THEN f.digits \o Zeros(f.exp - (n - 1))
                 ELSE IF f.exp >= 0
                      THEN SubSeq(f.digits, 1, f.exp + 1) \o <<46>>
                           \o SubSeq(f.digits, f.exp + 2, n)
                 ELSE <<ZERO, 46>> \o Zeros(0 - f.exp - 1) \o f.digits)

\* impl LowerExp for f64 (format!("{:e}", f)) of a finite value
f64_to_lower_exp(f) ==
    LET n == Len(f.digits)
        sign == IF f.neg THEN <<MINUS>> ELSE <<>>
    IN  IF n = 0 THEN sign \o <<ZERO, 101, ZERO>>
        ELSE sign \o <<f.digits[1]>>
             \o (IF n > 1 THEN <<46>> \o SubSeq(f.digits, 2, n) ELSE <<>>)
             \o <<101>> \o to_string(f.exp)

\* ------------------------------------------------------------------------
\* RespParser (resp.rs)
\* ------------------------------------------------------------------------
next_byte(buf, pos) ==
    IF pos > Len(buf) THEN Err("UnexpectedEndOfInput") ELSE Ok(buf[pos], pos + 1)

expect_byte(buf, pos, expected) ==
    LET on_byte(b) ==
            IF ~b.ok THEN b
            ELSE IF b.val # expected THEN Err("InvalidByte")
            ELSE Ok(TRUE, b.pos)
    IN  on_byte(next_byte(buf, pos))

RECURSIVE parse_until_crlf_loop(_, _, _)
parse_until_crlf_loop(buf, pos, result) ==
    LET on_byte(b) ==
            IF ~b.ok THEN b
            ELSE IF b.val = CR
                 THEN LET on_lf(e) == IF ~e.ok THEN e ELSE Ok(result, e.pos)
                      IN  on_lf(expect_byte(buf, b.pos, LF))
                 ELSE parse_until_crlf_loop(buf, b.pos, Append(result, b.val))
    IN  on_byte(next_byte(buf, pos))

parse_until_crlf(buf, pos) == parse_until_crlf_loop(buf, pos, <<>>)

bytes_to_len(input) ==
    IF ~IsUtf8(input) THEN Err("InvalidUtf8")
    ELSE LET on_len(n) == IF n.ok THEN Ok(n.val, 0) ELSE Err("InvalidInteger")
         IN  on_len(parse_i64(input))

\* get_slice + vec_from_slice: the next `to` bytes, cursor advanced past them.
vec_from_slice(buf, pos, to) ==
    IF Len(buf) - pos + 1 < to THEN Err("UnexpectedEndOfInput")
    ELSE Ok(SubSeq(buf, pos, pos + to - 1), pos + to)

parse_simple_string(buf, pos) ==
    LET on_line(r) ==
            IF ~r.ok THEN r
            ELSE IF ~IsUtf8(r.val) THEN Err("InvalidFromUtf8")
            ELSE Ok(SimpleString(r.val), r.pos)
    IN  on_line(parse_until_crlf(buf, pos))

parse_simple_error(buf, pos) ==
    LET on_line(r) ==
            IF ~r.ok THEN r
            ELSE IF ~IsUtf8(r.val) THEN Err("InvalidFromUtf8")
            ELSE Ok(SimpleError(r.val), r.pos)
    IN  on_line(parse_until_crlf(buf, pos))

parse_integer(buf, pos) ==
    LET on_int(r, n) == IF n.ok THEN Ok(Integer(n.val), r.pos) ELSE Err("InvalidInteger")
        on_line(r) ==
            IF ~r.ok THEN r
            ELSE IF ~IsUtf8(r.val) THEN Err("InvalidUtf8")
            ELSE on_int(r, parse_i64(r.val))
    IN  on_line(parse_until_crlf(buf, pos))

parse_bulk_string(buf, pos) ==
    LET on_lf(result, l) == IF ~l.ok THEN l ELSE Ok(BulkString(result.val), l.pos)
        on_cr(result, c) ==
            IF ~c.ok THEN c ELSE on_lf(result, expect_byte(buf, c.pos, LF))
        on_result(result) ==
            IF ~result.ok THEN result
            ELSE on_cr(result, expect_byte(buf, result.pos, CR))
        on_len(len_bytes, len) ==
            IF ~len.ok THEN len
            ELSE IF len.val < 0 THEN Ok(BulkStringNull, len_bytes.pos)
            ELSE on_result(vec_from_slice(buf, len_bytes.pos, len.val))
        on_len_bytes(len_bytes) ==
            IF ~len_bytes.ok THEN len_bytes
            ELSE on_len(len_bytes, bytes_to_len(len_bytes.val))
    IN  on_len_bytes(parse_until_crlf(buf, pos))

parse_null(buf, pos) ==
    LET on_line(r) == IF ~r.ok THEN r ELSE Ok(Null, r.pos)
    IN  on_line(parse_until_crlf(buf, pos))

\* parse_boolean reads the one byte after '#'; it does not read a CRLF.
parse_boolean(buf, pos) ==
    LET on_byte(b) ==
            IF ~b.ok THEN b
            ELSE IF b.val = 116 THEN Ok(Boolean(TRUE), b.pos)
            ELSE IF b.val = 102 THEN Ok(Boolean(FALSE), b.pos)
            ELSE Err("InvalidByte")
    IN  on_byte(next_byte(buf, pos))

parse_float(buf, pos) ==
    LET on_float(result, float) ==
            IF ~float.ok THEN Err("InvalidFloat")
            ELSE IF float.val.kind # "fin" THEN Err("InvalidFloatConversion")
            ELSE Ok(Double(float.val), result.pos)
        on_line(result) ==
            IF ~result.ok THEN result
            ELSE IF ~IsUtf8(result.val) THEN Err("InvalidUtf8")
            ELSE IF result.val = <<105, 110, 102>> THEN Ok(Double(INFINITY), result.pos)
            ELSE IF result.val = <<MINUS, 105, 110, 102>>
                 THEN Ok(Double(NEG_INFINITY), result.pos)
            ELSE IF result.val = <<110, 97, 110>> THEN Ok(Double(NAN), result.pos)
            ELSE on_float(result, parse_f64(result.val))
    IN  on_line(parse_until_crlf(buf, pos))

parse_big_number(buf, pos) ==
    LET on_line(r) == IF ~r.ok THEN r ELSE Ok(BigNumber(r.val), r.pos)
    IN  on_line(parse_until_crlf(buf, pos))

parse_bulk_error(buf, pos) ==
    LET on_bulk(bulk_str) ==
            IF ~bulk_str.ok THEN bulk_str
            ELSE IF bulk_str.val.t = "BulkString"
                 THEN Ok(BulkError(bulk_str.val.v), bulk_str.pos)
                 ELSE Err("panic")
    IN  on_bulk(parse_bulk_string(buf, pos))

parse_verbatim_string(buf, pos) ==
    LET on_bulk(bulk_str) ==
            IF ~bulk_str.ok THEN bulk_str
            ELSE IF bulk_str.val.t = "BulkString"
                 THEN Ok(VerbatimString(bulk_str.val.v), bulk_str.pos)
                 ELSE Err("panic")
    IN  on_bulk(parse_bulk_string(buf, pos))

RECURSIVE parse_resp(_, _)
RECURSIVE parse_items(_, _, _, _)
RECURSIVE parse_pairs(_, _, _, _)
RECURSIVE parse_array(_, _)
RECURSIVE parse_map(_, _)
RECURSIVE parse_set(_, _)
RECURSIVE parse_push(_, _)

\* for _ in 0..len { res.push(self.parse()?) }
parse_items(buf, pos, len, res) ==
    IF len = 0 THEN Ok(res, pos)
    ELSE LET on_item(item) ==
                 IF ~item.ok THEN item
                 ELSE parse_items(buf, item.pos, len - 1, Append(res, item.val))
         IN  on_item(parse_resp(buf, pos))

\* for _ in 0..len { key = parse()?; value = parse()?; result.push((key, value)) }
parse_pairs(buf, pos, len, res) ==
    IF len = 0 THEN Ok(res, pos)
    ELSE LET on_value(key, value) ==
                 IF ~value.ok THEN value
                 ELSE parse_pairs(buf, value.pos, len - 1,
                                  Append(res, <<key.val, value.val>>))
             on_key(key) ==
                 IF ~key.ok THEN key ELSE on_value(key, parse_resp(buf, key.pos))
         IN  on_key(parse_resp(buf, pos))

parse_array(buf, pos) ==
    LET on_items(res) == IF ~res.ok THEN res ELSE Ok(Array(res.val), res.pos)
        on_len(len_bytes, len) ==
            IF ~len.ok THEN len
            ELSE IF len.val < 0 THEN Ok(ArrayNull, len_bytes.pos)
            ELSE IF len.val = 0 THEN Ok(Array(<<>>), len_bytes.pos)
            ELSE on_items(parse_items(buf, len_bytes.pos, len.val, <<>>))
        on_len_bytes(len_bytes) ==
            IF ~len_bytes.ok THEN len_bytes
            ELSE on_len(len_bytes, bytes_to_len(len_bytes.val))
    IN  on_len_bytes(parse_until_crlf(buf, pos))

parse_map(buf, pos) ==
    LET on_pairs(res) == IF ~res.ok THEN res ELSE Ok(Map(res.val), res.pos)
        on_len(len_bytes, len) ==
            IF ~len.ok THEN len
            ELSE IF len.val < 0 THEN Err("InvalidLength")
            ELSE on_pairs(parse_pairs(buf, len_bytes.pos, len.val, <<>>))
        on_len_bytes(len_bytes) ==
            IF ~len_bytes.ok THEN len_bytes
            ELSE on_len(len_bytes, bytes_to_len(len_bytes.val))
    IN  on_len_bytes(parse_until_crlf(buf, pos))

parse_set(buf, pos) ==
    LET on_items(res) == IF ~res.ok THEN res ELSE Ok(Set(res.val), res.pos)
        on_len(len_bytes, len) ==
            IF ~len.ok THEN len
            ELSE IF len.val < 0 THEN Err("InvalidLength")
            ELSE on_items(parse_items(buf, len_bytes.pos, len.val, <<>>))
        on_len_bytes(len_bytes) ==
            IF ~len_bytes.ok THEN len_bytes
            ELSE on_len(len_bytes, bytes_to_len(len_bytes.val))
    IN  on_len_bytes(parse_until_crlf(buf, pos))

parse_push(buf, pos) ==
    LET on_array(result) ==
            IF ~result.ok THEN result
            ELSE IF result.val.t = "Array" THEN Ok(Push(result.val.v), result.pos)
            ELSE Err("panic")
    IN  on_array(parse_array(buf, pos))

parse_resp(buf, pos) ==
    LET on_byte(first_byte) ==
            IF ~first_byte.ok THEN first_byte
            ELSE CASE first_byte.val = 43 -> parse_simple_string(buf, first_byte.pos)
                   [] first_byte.val = 45 -> parse_simple_error(buf, first_byte.pos)
                   [] first_byte.val = 58 -> parse_integer(buf, first_byte.pos)
                   [] first_byte.val = 36 -> parse_bulk_string(buf, first_byte.pos)
                   [] first_byte.val = 42 -> parse_array(buf, first_byte.pos)
                   [] first_byte.val = 95 -> parse_null(buf, first_byte.pos)
                   [] first_byte.val = 35 -> parse_boolean(buf, first_byte.pos)
                   [] first_byte.val = 44 -> parse_float(buf, first_byte.pos)
                   [] first_byte.val = 40 -> parse_big_number(buf, first_byte.pos)
                   [] first_byte.val = 33 -> parse_bulk_error(buf, first_byte.pos)
                   [] first_byte.val = 61 -> parse_verbatim_string(buf, first_byte.pos)
                   [] first_byte.val = 37 -> parse_map(buf, first_byte.pos)
                   [] first_byte.val = 126 -> parse_set(buf, first_byte.pos)
                   [] first_byte.val = 62 -> parse_push(buf, first_byte.pos)
                   [] OTHER -> Err("panic")
    IN  on_byte(next_byte(buf, pos))

\* RespParser::parse
parse(buf, pos) == parse_resp(buf, pos)

\* ------------------------------------------------------------------------
\* RespEncoder (resp.rs): each operator yields the bytes it appends.
\* ------------------------------------------------------------------------
encode_simple_string(s) == <<43>> \o s \o CRLF
encode_simple_error(s) == <<45>> \o s \o CRLF
encode_integer(i) == <<58>> \o to_string(i) \o CRLF
encode_bulk_string(bytes) == <<36>> \o to_string(Len(bytes)) \o CRLF \o bytes \o CRLF
encode_bulk_string_null == <<36, MINUS, 49>> \o CRLF
encode_array_null == <<42, MINUS, 49>> \o CRLF
encode_null == <<95>> \o CRLF
encode_boolean(b) == <<35>> \o (IF b THEN <<116>> ELSE <<102>>) \o CRLF
encode_double(f) ==
    <<44>> \o (CASE f.kind = "inf" -> <<105, 110, 102>>
                 [] f.kind = "-inf" -> <<MINUS, 105, 110, 102>>
                 [] f.kind = "nan" -> <<110, 97, 110>>
                 [] OTHER -> f64_to_lower_exp(f))
    \o CRLF
encode_big_number(n) == <<40>> \o n \o CRLF
encode_bulk_error(e) == <<33>> \o to_string(Len(e)) \o CRLF \o e \o CRLF
encode_verbatim_string(s) == <<61>> \o to_string(Len(s)) \o CRLF \o s \o CRLF

RECURSIVE encode_resp(_)
RECURSIVE encode_items(_)
RECURSIVE encode_pairs(_)
RECURSIVE encode_array(_)
RECURSIVE encode_map(_)
RECURSIVE encode_set(_)
RECURSIVE encode_push(_)

encode_items(arr) ==
    IF arr = <<>> THEN <<>> ELSE encode_resp(Head(arr)) \o encode_items(Tail(arr))

encode_pairs(m) ==
    IF m = <<>> THEN <<>>
    ELSE encode_resp(Head(m)[1]) \o encode_resp(Head(m)[2]) \o encode_pairs(Tail(m))

encode_array(arr) == <<42>> \o to_string(Len(arr)) \o CRLF \o encode_items(arr)
encode_map(m) == <<37>> \o to_string(Len(m)) \o CRLF \o encode_pairs(m)
encode_set(s) == <<126>> \o to_string(Len(s)) \o CRLF \o encode_items(s)
encode_push(p) == <<62>> \o to_string(Len(p)) \o CRLF \o encode_items(p)

encode_resp(data) ==
    CASE data.t = "SimpleString" -> encode_simple_string(data.v)
      [] data.t = "SimpleError" -> encode_simple_error(data.v)
      [] data.t = "Integer" -> encode_integer(data.v)
      [] data.t = "BulkString" -> encode_bulk_string(data.v)
      [] data.t = "BulkStringNull" -> encode_bulk_string_null
      [] data.t = "Array" -> encode_array(data.v)
      [] data.t = "ArrayNull" -> encode_array_null
      [] data.t = "Null" -> encode_null
      [] data.t = "Boolean" -> encode_boolean(data.v)
      [] data.t = "Double" -> encode_double(data.v)
      [] data.t = "BigNumber" -> encode_big_number(data.v)
      [] data.t = "BulkError" -> encode_bulk_error(data.v)
      [] data.t = "VerbatimString" -> encode_verbatim_string(data.v)
      [] data.t = "Map" -> encode_map(data.v)
      [] data.t = "Set" -> encode_set(data.v)
      [] data.t = "Push" -> encode_push(data.v)

\* ------------------------------------------------------------------------
\* Keyspace (database.rs) and records
\* ------------------------------------------------------------------------
NoExpiry == [none |-> TRUE]

\* Record::from_vec: a record holding the value bytes, no expiry yet.
Record_from_vec(data) == [data |-> data, expiry |-> NoExpiry]

\* Record::set_expiry: the record expires `d` after the present instant.
Record_set_expiry(value, d, t) == [value EXCEPT !.expiry = [created |-> t, ttl |-> d]]

\* Record::has_expired
Record_has_expired(value, t) ==
    value.expiry # NoExpiry /\ t - value.expiry.created >= value.expiry.ttl

\* HashMap::insert
MapInsert(m, key, value) ==
    [x \in (DOMAIN m) \cup {key} |-> IF x = key THEN value ELSE m[x]]

\* HashMap::remove
MapRemove(m, key) == [x \in (DOMAIN m) \ {key} |-> m[x]]

EmptyMap == [x \in {} |-> 0]

\* Option<T>
None == [some |-> FALSE]
Some(x) == [some |-> TRUE, val |-> x]

\* Database::set that leaves the expiry of the record it replaces on the key
Database_set_keep_expiry(db, key, value) ==
    [db |-> [db EXCEPT !.store =
                MapInsert(db.store, key,
                          IF key \in DOMAIN db.store
                          THEN [value EXCEPT !.expiry = db.store[key].expiry]
                          ELSE value)],
     prev |-> IF key \in DOMAIN db.store THEN Some(db.store[key]) ELSE None]

\* A database is [store |-> key -> record, ttl |-> key -> (created, expiry)].
\* Database::set: store.insert(key, value), yields the previous record.
Database_set(db, key, value) ==
    [db |-> [db EXCEPT !.store = MapInsert(db.store, key, value)],
     prev |-> IF key \in DOMAIN db.store THEN Some(db.store[key]) ELSE None]

\* Database::get: a key with an elapsed entry in the ttl map is removed.
Database_get(db, key, t) ==
    IF key \in DOMAIN db.ttl /\ t - db.ttl[key].created > db.ttl[key].ttl
    THEN [db |-> [store |-> MapRemove(db.store, key), ttl |-> MapRemove(db.ttl, key)],
          val |-> None]
    ELSE [db |-> db,
          val |-> IF key \in DOMAIN db.store THEN Some(db.store[key]) ELSE None]

\* Database::del
Database_del(db, key) ==
    [store |-> MapRemove(db.store, key), ttl |-> MapRemove(db.ttl, key)]

\* Database::exists
Database_exists(db, key) == key \in DOMAIN db.store

\* ------------------------------------------------------------------------
\* Argument parsers (arguments.rs, internals.rs)
\* ------------------------------------------------------------------------
to_uppercase(bs) ==
    [i \in 1..Len(bs) |-> IF bs[i] >= 97 /\ bs[i] <= 122 THEN bs[i] - 32 ELSE bs[i]]

ArgErr(msg) == [ok |-> FALSE, msg |-> msg]

\* str::parse::<u64>() taken for a signed parse
parse_u64_signed(bs) == parse_i64(bs)

\* str::parse::<u64>(): an optional '+', then decimal digits.
parse_u64(bs) ==
    IF Len(bs) > 0 /\ bs[1] = MINUS THEN [ok |-> FALSE] ELSE parse_i64(bs)

EchoArguments_parse(args) ==
    IF args = <<>> THEN ArgErr(MSG_ECHO_ARGS)
    ELSE IF Head(args).t = "BulkString" THEN [ok |-> TRUE, message |-> Head(args)]
    ELSE ArgErr(MSG_MUST_BE_BULK)

GetArguments_parse(args) ==
    IF args # <<>> /\ Head(args).t = "BulkString"
    THEN [ok |-> TRUE, key |-> Head(args).v]
    ELSE ArgErr(MSG_MUST_BE_BULK)

\* The option loop of SetArguments::parse; acc holds nx, xx, get, expiration.
RECURSIVE SetOptions(_, _)
SetOptions(args, acc) ==
    IF args = <<>> THEN acc
    ELSE LET arg == Head(args)
             rest == Tail(args)
             on_seconds(seconds) ==
                 IF ~seconds.ok THEN ArgErr(MSG_SECONDS_VALUE)
                 ELSE SetOptions(Tail(rest),
                          [acc EXCEPT !.expiration =
                              Some([unit |-> "Seconds", n |-> seconds.val])])
             on_milliseconds(milliseconds) ==
                 IF ~milliseconds.ok THEN ArgErr(MSG_MS_VALUE)
                 ELSE SetOptions(Tail(rest),
                          [acc EXCEPT !.expiration =
                              Some([unit |-> "Milliseconds", n |-> milliseconds.val])])
             on_str(as_str) ==
                 CASE as_str = STR_NX -> SetOptions(rest, [acc EXCEPT !.nx = TRUE])
                   [] as_str = STR_XX -> SetOptions(rest, [acc EXCEPT !.xx = TRUE])
                   [] as_str = STR_GET -> SetOptions(rest, [acc EXCEPT !.get = TRUE])
                   [] as_str = STR_EX ->
                        IF rest # <<>> /\ Head(rest).t = "BulkString"
                        THEN IF ~IsUtf8(Head(rest).v) THEN ArgErr(MSG_SECONDS_FORMAT)
                             ELSE on_seconds(parse_u64(Head(rest).v))
                        ELSE ArgErr(MSG_EXPECTED_SECONDS)
                   [] as_str = STR_PX ->
                        IF rest # <<>> /\ Head(rest).t = "BulkString"
                        THEN IF ~IsUtf8(Head(rest).v) THEN ArgErr(MSG_MS_FORMAT)
                             ELSE on_milliseconds(parse_u64(Head(rest).v))
                        ELSE ArgErr(MSG_EXPECTED_MS)
                   [] OTHER -> ArgErr(MSG_UNKNOWN_ARG)
         IN  IF arg.t # "BulkString" THEN ArgErr(MSG_ARGS_BULK)
             ELSE IF ~IsUtf8(arg.v) THEN ArgErr(MSG_NOT_UTF8)
             ELSE on_str(to_uppercase(arg.v))

SetArguments_parse(args) ==
    IF args = <<>> \/ Head(args).t # "BulkString" THEN ArgErr(MSG_KEY_BULK)
    ELSE IF Len(args) < 2 \/ args[2].t # "BulkString" THEN ArgErr(MSG_KEY_BULK)
    ELSE SetOptions(SubSeq(args, 3, Len(args)),
                    [ok |-> TRUE, key |-> args[1].v, value |-> Record_from_vec(args[2].v),
                     nx |-> FALSE, xx |-> FALSE, get |-> FALSE, expiration |-> None])

\* Expiration::as_duration, in milliseconds
as_duration(e) == IF e.unit = "Seconds" THEN e.n * 1000 ELSE e.n

\* impl TryInto<String> for Resp
try_into_string(r) ==
    CASE r.t \in {"SimpleString", "SimpleError"} -> Some(r.v)
      [] r.t = "Integer" -> Some(to_string(r.v))
      [] r.t \in {"BulkString", "VerbatimString"} ->
            IF IsUtf8(r.v) THEN Some(r.v) ELSE None
      [] r.t \in {"BulkStringNull", "ArrayNull", "Null"} -> Some(<<>>)
      [] r.t = "Double" -> Some(f64_to_string(r.v))
      [] r.t = "Boolean" -> Some(IF r.v THEN <<116, 114, 117, 101>> ELSE <<102, 97, 108, 115, 101>>)
      [] OTHER -> None

\* internals.rs: try_string
try_string(args) ==
    IF args = <<>> THEN ArgErr(MSG_EXPECTED_ARG)
    ELSE LET on_string(s) ==
                 IF s.some THEN [ok |-> TRUE, val |-> s.val] ELSE ArgErr(MSG_CONVERSION)
         IN  on_string(try_into_string(Head(args)))

\* internals.rs: check_remaining
check_remaining(outcome, args) ==
    IF Len(args) > 0 THEN ArgErr(MSG_TOO_MANY) ELSE outcome

ReplconfArguments_parse(args) ==
    IF args = <<>> THEN ArgErr(MSG_EXPECTED_ARG)
    ELSE LET on_value(kind, v) ==
                 IF kind = "unknown" THEN ArgErr(MSG_UNKNOWN_ARG)
                 ELSE IF ~v.ok THEN v
                 ELSE check_remaining([ok |-> TRUE, kind |-> kind, val |-> v.val],
                                      SubSeq(args, 3, Len(args)))
             on_name(s) ==
                 on_value(CASE s = STR_LISTENING_PORT -> "ListeningPort"
                            [] s = STR_CAPA -> "Capa"
                            [] s = STR_GETACK -> "GetAck"
                            [] OTHER -> "unknown",
                          try_string(Tail(args)))
             on_string(as_string) ==
                 IF ~as_string.some THEN ArgErr(MSG_EXPECTED_ARG)
                 ELSE on_name(to_uppercase(as_string.val))
         IN  on_string(try_into_string(Head(args)))

PsyncArguments_parse(args) ==
    LET on_offset(repl_id, repl_offset) ==
            IF ~repl_offset.ok THEN repl_offset
            ELSE check_remaining([ok |-> TRUE, repl_id |-> repl_id.val,
                                  repl_offset |-> repl_offset.val],
                                 SubSeq(args, 3, Len(args)))
        on_id(repl_id) ==
            IF ~repl_id.ok THEN repl_id ELSE on_offset(repl_id, try_string(Tail(args)))
    IN  on_id(try_string(args))

\* ------------------------------------------------------------------------
\* Command parser (command.rs, CmdParser)
\* ------------------------------------------------------------------------
Unexpected(msg) == [c |-> "Unexpected", msg |-> msg]

resp_to_string(input) ==
    CASE input.t = "SimpleString" -> Some(input.v)
      [] input.t = "BulkString" -> IF IsUtf8(input.v) THEN Some(input.v) ELSE None
      [] OTHER -> None

route_cmd(name, args) ==
    LET on_args(c, cmd_args) ==
            IF ~cmd_args.ok THEN Unexpected(cmd_args.msg)
            ELSE [c |-> c, args |-> cmd_args]
        on_name(n) ==
            CASE n = STR_PING -> [c |-> "Ping"]
              [] n = STR_INFO -> [c |-> "Info"]
              [] n = STR_ECHO -> on_args("Echo", EchoArguments_parse(args))
              [] n = STR_GET -> on_args("Get", GetArguments_parse(args))
              [] n = STR_SET -> on_args("Set", SetArguments_parse(args))
              [] n = STR_REPLCONF -> on_args("ReplConf", ReplconfArguments_parse(args))
              [] n = STR_PSYNC -> [c |-> "Psync"]
              [] OTHER -> [c |-> "Unknown"]
    IN  on_name(to_uppercase(name))

CmdParser_parse(input) ==
    IF input.t = "Array"
    THEN IF Len(input.v) < 1 THEN [c |-> "Unknown"]
         ELSE LET on_name(cmd_name) ==
                      IF cmd_name.some THEN route_cmd(cmd_name.val, Tail(input.v))
                      ELSE Unexpected(MSG_MALFORMED_NAME)
              IN  on_name(resp_to_string(Head(input.v)))
    ELSE Unexpected(MSG_EXPECTED_ARRAY)

\* ArgumentParser::get_from (arguments.rs), used by the master-side handshake
ArgumentParser_get_from(args) ==
    IF args = <<>> THEN ArgErr(<<>>)
    ELSE LET rest == Tail(args)
             on_args(c, a) == IF a.ok THEN [ok |-> TRUE, c |-> c, args |-> a] ELSE a
             on_upper(n) ==
                 CASE n = STR_PING -> [ok |-> TRUE, c |-> "Ping"]
                   [] n = STR_INFO -> [ok |-> TRUE, c |-> "Info"]
                   [] n = STR_GET -> on_args("Get", GetArguments_parse(rest))
                   [] n = STR_SET -> on_args("Set", SetArguments_parse(rest))
                   [] n = STR_ECHO -> on_args("Echo", EchoArguments_parse(rest))
                   [] n = STR_REPLCONF -> on_args("Replconf", ReplconfArguments_parse(rest))
                   [] n = STR_PSYNC -> on_args("Psync", PsyncArguments_parse(rest))
                   [] OTHER -> ArgErr(<<>>)
             on_name(name) ==
                 IF ~name.some THEN ArgErr(<<>>) ELSE on_upper(to_uppercase(name.val))
         IN  on_name(try_into_string(Head(args)))

\* ------------------------------------------------------------------------
\* Framed connection, write side (connection.rs).
\* A connection is [sent, write_buf, sock_ok, writable]: `sent` holds the
\* bytes the socket accepted since the connection's last read_message
\* returned; sock_ok is FALSE once a write on the socket has failed.
\* `cut` is the fate of the socket during one write_all: NoFail, or the
\* number of bytes the socket still accepts before it fails for good.
\* ------------------------------------------------------------------------
NoFail == 0 - 1

Min(a, b) == IF a < b THEN a ELSE b

Connection_new ==
    [sent |-> <<>>, write_buf |-> <<>>, sock_ok |-> TRUE, writable |-> TRUE]

\* TcpStream::write_all(buf) under `cut`: [conn, ok]
write_all(cn, buf, cut) ==
    IF ~cn.sock_ok THEN [conn |-> cn, ok |-> FALSE]
    ELSE IF cut = NoFail THEN [conn |-> [cn EXCEPT !.sent = @ \o buf], ok |-> TRUE]
    ELSE [conn |-> [cn EXCEPT !.sent = @ \o SubSeq(buf, 1, Min(cut, Len(buf))),
                              !.sock_ok = FALSE],
          ok |-> FALSE]

\* write_message / write_str / write_err / write_bytes: encode one frame into
\* write_buf, write_all, clear write_buf whatever the result.
Connection_write_frame(cn, frame, cut) ==
    IF ~cn.writable THEN [conn |-> cn, ok |-> FALSE]
    ELSE LET on_write(result) ==
                 [conn |-> [result.conn EXCEPT !.write_buf = <<>>], ok |-> result.ok]
         IN  on_write(write_all(cn, cn.write_buf \o frame, cut))

Connection_write_str(cn, payload, cut) ==
    Connection_write_frame(cn, encode_simple_string(payload), cut)

Connection_write_err(cn, payload, cut) ==
    Connection_write_frame(cn, encode_simple_error(payload), cut)

Connection_write_bytes(cn, payload, cut) ==
    Connection_write_frame(cn, encode_bulk_string(payload), cut)

Connection_write_message(cn, payload, cut) ==
    Connection_write_frame(cn, encode_resp(payload), cut)

\* Connection::write: append raw bytes to write_buf
Connection_write(cn, payload) ==
    IF ~cn.writable THEN cn ELSE [cn EXCEPT !.write_buf = @ \o payload]

\* Connection::flush: write_all(write_buf)?, then clear; a failed write_all
\* returns before the clear.
Connection_flush(cn, cut) ==
    LET on_write(result) ==
            IF result.ok
            THEN [conn |-> [result.conn EXCEPT !.write_buf = <<>>], ok |-> TRUE]
            ELSE [conn |-> result.conn, ok |-> FALSE]
    IN  on_write(write_all(cn, cn.write_buf, cut))

\* ------------------------------------------------------------------------
\* Commands (command.rs, internals.rs).  An execution yields the connection
\* and database after it and the Transaction it is classified as.
\* ------------------------------------------------------------------------
Exec(cn, db, txn) == [conn |-> cn, db |-> db, txn |-> txn]

\* ServerInfo::new: role, replication id and offset of a master
info_role == STR_MASTER
info_master_replid == MASTER_REPLID
info_master_repl_offset == 0

PingCommand_execute(cn, db) ==
    Exec(Connection_write_str(cn, STR_PONG, NoFail).conn, db, "None")

InfoCommand_execute(cn, db) ==
    LET payload == STR_ROLE \o info_role \o STR_MASTER_REPLID \o info_master_replid
                   \o STR_MASTER_REPL_OFFSET \o to_string(info_master_repl_offset)
    IN  Exec(Connection_write_bytes(cn, payload, NoFail).conn, db, "None")

EchoCommand_execute(args, cn, db) ==
    Exec(Connection_write_message(cn, args.message, NoFail).conn, db, "None")

SetCommand_execute(args, cn, db, t) ==
    LET key == args.key
        on_set(value, null_reply, ok_reply, set) ==
            IF args.nx
            THEN IF Database_exists(db, key) THEN Exec(null_reply, db, "None")
                 ELSE IF args.get THEN Exec(null_reply, set.db, "Write")
                 ELSE Exec(ok_reply, set.db, "Write")
            ELSE IF args.xx
            THEN IF ~Database_exists(db, key) THEN Exec(null_reply, db, "None")
                 ELSE IF args.get
                      THEN IF set.prev.some
                           THEN Exec(Connection_write_bytes(cn, set.prev.val.data,
                                                            NoFail).conn,
                                     set.db, "Write")
                           ELSE Exec(null_reply, set.db, "Write")
                      ELSE Exec(ok_reply, set.db, "Write")
            ELSE IF args.get
                 \* `let _ = stream.write_bytes(&value.data);` is never awaited:
                 \* the future is dropped and no byte is written.
                 THEN IF set.prev.some THEN Exec(cn, set.db, "Write")
                      ELSE Exec(null_reply, set.db, "Write")
                 ELSE Exec(ok_reply, set.db, "Write")
        on_value(value) ==
            on_set(value,
                   Connection_write_message(cn, BulkStringNull, NoFail).conn,
                   Connection_write_str(cn, STR_OK, NoFail).conn,
                   Database_set(db, key, value))
    IN  on_value(IF args.expiration.some
                 THEN Record_set_expiry(args.value, as_duration(args.expiration.val), t)
                 ELSE args.value)

\* GetCommand::execute without the database.del of an expired record
GetCommand_execute_no_del(args, cn, db, t) ==
    LET on_get(value, null_reply) ==
            IF ~value.val.some THEN Exec(null_reply, value.db, "Read")
            ELSE IF Record_has_expired(value.val.val, t)
                 THEN Exec(null_reply, value.db, "Read")
                 ELSE Exec(Connection_write_bytes(cn, value.val.val.data, NoFail).conn,
                           value.db, "Read")
    IN  on_get(Database_get(db, args.key, t),
               Connection_write_message(cn, BulkStringNull, NoFail).conn)

\* GetCommand::execute without the has_expired test
GetCommand_execute_no_expiry(args, cn, db, t) ==
    LET on_get(value, null_reply) ==
            IF ~value.val.some THEN Exec(null_reply, value.db, "Read")
            ELSE Exec(Connection_write_bytes(cn, value.val.val.data, NoFail).conn,
                      value.db, "Read")
    IN  on_get(Database_get(db, args.key, t),
               Connection_write_message(cn, BulkStringNull, NoFail).conn)

GetCommand_execute(args, cn, db, t) ==
    LET key == args.key
        on_get(value, null_reply) ==
            IF ~value.val.some THEN Exec(null_reply, value.db, "Read")
            ELSE IF Record_has_expired(value.val.val, t)
                 THEN Exec(null_reply, Database_del(value.db, key), "Read")
                 ELSE Exec(Connection_write_bytes(cn, value.val.val.data, NoFail).conn,
                           value.db, "Read")
    IN  on_get(Database_get(db, key, t),
               Connection_write_message(cn, BulkStringNull, NoFail).conn)

\* PsyncCommand::execute: FULLRESYNC reply, then the length header and the
\* snapshot through write + flush; every result is discarded.
PsyncCommand_execute(cn, db, cut) ==
    LET payload == STR_FULLRESYNC \o <<SPACE>> \o info_master_replid \o <<SPACE>>
                   \o to_string(info_master_repl_offset)
        c1 == Connection_write_bytes(cn, payload, NoFail).conn
        rdb_file == get_empty_rdb_file
        c2 == Connection_write(c1, <<36>> \o to_string(Len(rdb_file)) \o CRLF)
        c3 == Connection_write(c2, rdb_file)
    IN  Exec(Connection_flush(c3, cut).conn, db, "Replicate")

\* ------------------------------------------------------------------------
\* Client requests
\* ------------------------------------------------------------------------
STR_psync2 == <<112, 115, 121, 110, 99, 50>>  \* 'psync2'
STR_listening_port == <<108, 105, 115, 116, 101, 110, 105, 110, 103, 45, 112, 111, 114, 116>>  \* 'listening-port'
STR_capa == <<99, 97, 112, 97>>  \* 'capa'
STR_PORT == <<54, 51, 56, 48>>  \* '6380'
STR_QUESTION == <<63>>  \* '?'
STR_MINUS_ONE == <<45, 49>>  \* '-1'
STR_STAR == <<42>>  \* '*'
STR_set == <<115, 101, 116>>  \* 'set'
STR_FOO == <<70, 79, 79>>  \* 'FOO'
KEY_K == <<107>>  \* 'k'
KEY_J == <<106>>  \* 'j'
VAL_1 == <<49>>  \* '1'
VAL_2 == <<50>>  \* '2'
VAL_3 == <<51>>  \* '3'
FRAME_SIMPLE_HI == <<43, 104, 105, 13, 10>>  \* '+hi\r\n'
FRAME_EMPTY_ARRAY == <<42, 48, 13, 10>>  \* '*0\r\n'
FRAME_BAD_LENGTH == <<36, 120, 13, 10>>  \* '$x\r\n'
FRAME_NEG_LENGTH == <<36, 45, 53, 13, 10>>  \* '$-5\r\n'
FRAME_EMPTY_BULK_NO_CRLF == <<36, 48, 13, 10, 88, 88>>  \* '$0\r\nXX'
FRAME_CR_NO_LF == <<43, 79, 75, 13, 88>>  \* '+OK\rX'
FRAME_BAD_INTEGER == <<58, 97, 98, 99, 13, 10>>  \* ':abc\r\n'
FRAME_BAD_BOOLEAN == <<35, 120, 13, 10>>  \* '#x\r\n'
FRAME_BAD_DOUBLE == <<44, 97, 98, 99, 13, 10>>  \* ',abc\r\n'
FRAME_NEG_MAP == <<37, 45, 49, 13, 10>>  \* '%-1\r\n'
FRAME_NEG_SET == <<126, 45, 49, 13, 10>>  \* '~-1\r\n'
FRAME_NULL_BULK_ERROR == <<33, 45, 49, 13, 10>>  \* '!-1\r\n'
FRAME_NULL_VERBATIM == <<61, 45, 49, 13, 10>>  \* '=-1\r\n'
FRAME_NULL_PUSH == <<62, 45, 49, 13, 10>>  \* '>-1\r\n'
FRAME_BULK_NO_CRLF == <<36, 49, 13, 10, 107, 88, 88>>  \* '$1\r\nkXX'
FRAME_NOT_UTF8 == <<43, 255, 13, 10>>  \* '+\xff\r\n'
FRAME_ARRAY_BAD_ITEM == <<42, 49, 13, 10, 64, 13, 10>>  \* '*1\r\n@\r\n'
FRAME_BAD_TYPE == <<64, 13, 10>>  \* '@\r\n'
FRAME_SET_PADDED == <<42, 51, 13, 10, 36, 48, 51, 13, 10, 83, 69, 84, 13, 10, 36, 49, 13, 10, 107, 13, 10, 36, 49, 13, 10, 51, 13, 10>>  \* '*3\r\n$03\r\nSET\r\n$1\r\nk\r\n$1\r\n3\r\n'
FRAME_SET_SIGNED == <<42, 51, 13, 10, 36, 51, 13, 10, 83, 69, 84, 13, 10, 36, 43, 49, 13, 10, 106, 13, 10, 36, 49, 13, 10, 50, 13, 10>>  \* '*3\r\n$3\r\nSET\r\n$+1\r\nj\r\n$1\r\n2\r\n'
FRAME_SET_SIMPLE_NAME == <<42, 51, 13, 10, 43, 83, 69, 84, 13, 10, 36, 49, 13, 10, 107, 13, 10, 36, 49, 13, 10, 49, 13, 10>>  \* '*3\r\n+SET\r\n$1\r\nk\r\n$1\r\n1\r\n'

\* RequestBuilder::build (client.rs): an array of bulk strings
RequestBuilder_build(args) ==
    encode_array([i \in 1..Len(args) |-> BulkString(args[i])])

REQ_PING == RequestBuilder_build(<<STR_PING>>)
REQ_INFO == RequestBuilder_build(<<STR_INFO>>)
REQ_ECHO == RequestBuilder_build(<<STR_ECHO, VAL_1>>)
REQ_FOO == RequestBuilder_build(<<STR_FOO>>)
REQ_GET_K == RequestBuilder_build(<<STR_GET, KEY_K>>)
REQ_SET_K_1 == RequestBuilder_build(<<STR_SET, KEY_K, VAL_1>>)
REQ_SET_K_2 == RequestBuilder_build(<<STR_SET, KEY_K, VAL_2>>)
REQ_SET_J_1 == RequestBuilder_build(<<STR_SET, KEY_J, VAL_1>>)
REQ_set_J_2 == RequestBuilder_build(<<STR_set, KEY_J, VAL_2>>)
REQ_SET_K_3_NX == RequestBuilder_build(<<STR_SET, KEY_K, VAL_3, STR_NX>>)
REQ_SET_K_2_NX == RequestBuilder_build(<<STR_SET, KEY_K, VAL_2, STR_NX>>)
REQ_SET_K_3_XX == RequestBuilder_build(<<STR_SET, KEY_K, VAL_3, STR_XX>>)
REQ_SET_K_2_GET == RequestBuilder_build(<<STR_SET, KEY_K, VAL_2, STR_GET>>)
REQ_SET_K_2_XX_GET == RequestBuilder_build(<<STR_SET, KEY_K, VAL_2, STR_XX, STR_GET>>)
REQ_SET_K_3_NX_GET == RequestBuilder_build(<<STR_SET, KEY_K, VAL_3, STR_NX, STR_GET>>)
REQ_SET_J_2_GET == RequestBuilder_build(<<STR_SET, KEY_J, VAL_2, STR_GET>>)
REQ_SET_K == RequestBuilder_build(<<STR_SET, KEY_K>>)
REQ_PSYNC == RequestBuilder_build(<<STR_PSYNC, STR_QUESTION, STR_MINUS_ONE>>)
REQ_REPLCONF_PORT == RequestBuilder_build(<<STR_REPLCONF, STR_listening_port, STR_PORT>>)
REQ_REPLCONF_CAPA == RequestBuilder_build(<<STR_REPLCONF, STR_capa, STR_psync2>>)
REQ_REPLCONF_GETACK == RequestBuilder_build(<<STR_REPLCONF, STR_GETACK, STR_STAR>>)
BYTES_NOT_UTF8 == <<255>>
REQ_SET_K_1_NX_XX == RequestBuilder_build(<<STR_SET, KEY_K, VAL_1, STR_NX, STR_XX>>)
REQ_SET_K_1_PX_2 == RequestBuilder_build(<<STR_SET, KEY_K, VAL_1, STR_PX, VAL_2>>)
REQ_SET_K_1_EX_FOO == RequestBuilder_build(<<STR_SET, KEY_K, VAL_1, STR_EX, STR_FOO>>)
REQ_SET_K_1_EX_NEG == RequestBuilder_build(<<STR_SET, KEY_K, VAL_1, STR_EX, STR_MINUS_ONE>>)
REQ_SET_K_1_EX == RequestBuilder_build(<<STR_SET, KEY_K, VAL_1, STR_EX>>)
REQ_SET_K_1_PX_FOO == RequestBuilder_build(<<STR_SET, KEY_K, VAL_1, STR_PX, STR_FOO>>)
REQ_SET_K_1_PX_NEG == RequestBuilder_build(<<STR_SET, KEY_K, VAL_1, STR_PX, STR_MINUS_ONE>>)
REQ_SET_K_1_PX == RequestBuilder_build(<<STR_SET, KEY_K, VAL_1, STR_PX>>)
REQ_SET_K_1_FOO == RequestBuilder_build(<<STR_SET, KEY_K, VAL_1, STR_FOO>>)
REQ_SET_K_1_NOT_UTF8 == RequestBuilder_build(<<STR_SET, KEY_K, VAL_1, BYTES_NOT_UTF8>>)
\* Every frame a client of the model sends
AllFrames ==
    {REQ_PING, REQ_INFO, REQ_ECHO, REQ_FOO, REQ_GET_K, REQ_SET_K_1, REQ_SET_K_2,
     REQ_SET_J_1, REQ_set_J_2, REQ_SET_K_3_NX, REQ_SET_K_3_XX, REQ_SET_K_2_GET,
     REQ_SET_K_2_XX_GET, REQ_SET_K_3_NX_GET, REQ_SET_J_2_GET, REQ_SET_K, REQ_PSYNC, REQ_REPLCONF_PORT,
     REQ_REPLCONF_CAPA, REQ_REPLCONF_GETACK, FRAME_SIMPLE_HI, FRAME_EMPTY_ARRAY,
     FRAME_BAD_LENGTH, FRAME_BAD_TYPE, FRAME_SET_PADDED, FRAME_SET_SIGNED,
     FRAME_SET_SIMPLE_NAME, REQ_SET_K_1_NX_XX, REQ_SET_K_1_PX_2, REQ_SET_K_1_EX_FOO,
     REQ_SET_K_1_EX_NEG, REQ_SET_K_1_EX, REQ_SET_K_1_PX_FOO, REQ_SET_K_1_PX_NEG,
     REQ_SET_K_1_PX, REQ_SET_K_1_FOO, REQ_SET_K_1_NOT_UTF8, FRAME_CR_NO_LF,
     FRAME_BAD_INTEGER, FRAME_BAD_BOOLEAN, FRAME_BAD_DOUBLE, FRAME_NEG_MAP,
     FRAME_NEG_SET, FRAME_BULK_NO_CRLF, FRAME_NOT_UTF8, REQ_SET_K_2_NX}

\* RespParser::parse of each frame, from its first byte
FrameParse == [raw \in AllFrames |-> parse(raw, 1)]

\* ------------------------------------------------------------------------
\* The replica-side handshake (protocol.rs)
\* ------------------------------------------------------------------------
\* enum ReplClientState and enum ReplicationEvents: a variant is its name,
\* ProtocolError carries its message in both.
ReplClientState(tag) == [tag |-> tag]
ReplicationEvents(tag) == [tag |-> tag]
ProtocolError(msg) == [tag |-> "ProtocolError", msg |-> msg]

\* The transition function with its last arm read as "stay where you are"
handle_event_stay(self, event) ==
    CASE self.tag = "Initial" /\ event.tag = "Start" -> ReplClientState("Ping")
      [] self.tag = "Ping" /\ event.tag = "RecievedPong" ->
            ReplClientState("NotifyListeningPort")
      [] self.tag = "NotifyListeningPort" /\ event.tag = "ReceivedOk" ->
            ReplClientState("NotifyCapabilities")
      [] self.tag = "NotifyCapabilities" /\ event.tag = "ReceivedOk" ->
            ReplClientState("RequestPsync")
      [] self.tag = "RequestPsync" /\ event.tag = "ReceivedFullResync" ->
            ReplClientState("FullResync")
      [] self.tag = "FullResync" /\ event.tag = "ReceivedRDB" ->
            ReplClientState("ReplicationStart")
      [] self.tag = "ReplicationStart" /\ event.tag = "ReceivedAck" ->
            ReplClientState("ReplicationStart")
      [] event.tag = "ProtocolError" -> ProtocolError(event.msg)
      [] OTHER -> self

\* ReplClientState::handle_event: the arms of the match, in their order
handle_event(self, event) ==
    CASE self.tag = "Initial" /\ event.tag = "Start" -> ReplClientState("Ping")
      [] self.tag = "Ping" /\ event.tag = "RecievedPong" ->
            ReplClientState("NotifyListeningPort")
      [] self.tag = "NotifyListeningPort" /\ event.tag = "ReceivedOk" ->
            ReplClientState("NotifyCapabilities")
      [] self.tag = "NotifyCapabilities" /\ event.tag = "ReceivedOk" ->
            ReplClientState("RequestPsync")
      [] self.tag = "RequestPsync" /\ event.tag = "ReceivedFullResync" ->
            ReplClientState("FullResync")
      [] self.tag = "FullResync" /\ event.tag = "ReceivedRDB" ->
            ReplClientState("ReplicationStart")
      [] self.tag = "ReplicationStart" /\ event.tag = "ReceivedAck" ->
            ReplClientState("ReplicationStart")
      [] event.tag = "ProtocolError" -> ProtocolError(event.msg)
      [] OTHER -> ProtocolError("Invalid State Transition")

STR_abc == <<97, 98, 99>>  \* 'abc'
STR_PORT_2 == <<54, 51, 56, 49>>  \* '6381'
REPLY_PONG == encode_simple_string(STR_PONG)
REPLY_OK == encode_simple_string(STR_OK)

\* The bulk reply "FULLRESYNC <id> <off>" and the length-prefixed snapshot
REPLY_FULLRESYNC(id, off) ==
    encode_bulk_string(STR_FULLRESYNC \o <<SPACE>> \o id \o <<SPACE>> \o off)
REPLY_SNAPSHOT ==
    <<36>> \o to_string(Len(get_empty_rdb_file)) \o CRLF \o get_empty_rdb_file

\* The master of the handshake: it answers the k-th request it receives
\* with the frames of bursts[k], one write each.
ScriptedMaster(id, off) ==
    [id |-> id, off |-> off,
     bursts |-> <<<<REPLY_PONG>>, <<REPLY_OK>>, <<REPLY_OK>>,
                  <<REPLY_FULLRESYNC(id, to_string(off)), REPLY_SNAPSHOT>>>>]

\* A master that sends each simple reply twice
RepeatingMaster(id, off) ==
    [id |-> id, off |-> off,
     bursts |-> <<<<REPLY_PONG, REPLY_PONG>>, <<REPLY_OK, REPLY_OK>>,
                  <<REPLY_OK, REPLY_OK>>,
                  <<REPLY_FULLRESYNC(id, to_string(off)), REPLY_SNAPSHOT>>>>]

\* Masters that answer out of protocol: the wrong reply to PING, the wrong
\* second reply to PING, an offset that is no number, a malformed frame
FaultyMasters ==
    {[id |-> <<>>, off |-> 0, bursts |-> <<<<REPLY_OK>>>>],
     [id |-> <<>>, off |-> 0, bursts |-> <<<<REPLY_PONG, REPLY_OK>>>>],
     [id |-> <<>>, off |-> 0, bursts |-> <<<<REPLY_PONG, FRAME_BAD_LENGTH>>>>],
     [id |-> STR_abc, off |-> 0,
      bursts |-> <<<<REPLY_PONG, REPLY_PONG>>, <<REPLY_OK, REPLY_OK>>,
                   <<REPLY_OK, REPLY_OK>>,
                   <<REPLY_FULLRESYNC(STR_abc, STR_FOO), REPLY_SNAPSHOT>>>>]}

MasterIds == {MASTER_REPLID, STR_abc}
MasterOffsets == {0, 7}
ScriptedMasters == {ScriptedMaster(id, off) : id \in MasterIds, off \in MasterOffsets}
Masters ==
    ScriptedMasters
    \cup {RepeatingMaster(id, off) : id \in MasterIds, off \in MasterOffsets}
    \cup FaultyMasters

\* The frames a master sends, in the order it sends them
RECURSIVE Flatten(_)
Flatten(bursts) == IF bursts = <<>> THEN <<>> ELSE Head(bursts) \o Flatten(Tail(bursts))

RECURSIVE Concat(_, _, _)
Concat(frames, i, j) == IF i > j THEN <<>> ELSE frames[i] \o Concat(frames, i + 1, j)

\* What a buffer of the replica can hold: frames of its master, from one it
\* sent to a later one
HandshakeBuffers ==
    {<<>>} \cup UNION {{Concat(Flatten(m.bursts), i, j) :
                           i \in 1..Len(Flatten(m.bursts)),
                           j \in 1..Len(Flatten(m.bursts))} : m \in Masters}

\* RespParser::parse at the head of each of these buffers
BufferParse == [b \in HandshakeBuffers |-> parse(b, 1)]

MaxForward == 2

\* What the master sends on the link: a write, a request for the offset, a
\* read, and a SET that lacks its value
InboundMenu == {REQ_SET_K_1, REQ_REPLCONF_GETACK, REQ_GET_K, REQ_SET_K}

Seqs(S, n) == UNION {[1..k -> S] : k \in 0..n}

\* What the buffer of the replica can hold once its master forwards: what
\* is left of the handshake, then the frames forwarded
LinkBuffers ==
    {h \o Concat(f, 1, Len(f)) : h \in HandshakeBuffers, f \in Seqs(InboundMenu, MaxForward)}

\* RespParser::parse at the head of each of these buffers
LinkParse == [b \in LinkBuffers |-> parse(b, 1)]

\* RespParser::parse at the head of a buffer
parse_buffer(b) ==
    IF b \in HandshakeBuffers THEN BufferParse[b]
    ELSE IF b \in LinkBuffers THEN LinkParse[b]
    ELSE parse(b, 1)


\* ServerInfo::to_replica: what a replica's info holds before the handshake
to_replica == [master_replid |-> STR_QUESTION, master_repl_offset |-> 0 - 1]

\* read_and_parse (server.rs) on the local buffer `buf` of the caller once
\* the socket has handed over `wire`: the first frame of the bytes read so
\* far, or the buffer to go on reading into.  What follows the first frame is
\* dropped with the buffer.
read_and_parse(buf, wire) ==
    LET on_parse(r, read) ==
            IF r.ok THEN [st |-> "ok", val |-> r.val, buf |-> <<>>]
            ELSE IF r.err = "panic" THEN [st |-> "panic", buf |-> read]
            ELSE [st |-> "wait", buf |-> read]
    IN  on_parse(parse_buffer(buf \o wire), buf \o wire)

\* RedisClient::assert_res_is_simple
assert_res_is_simple(actual, expected) ==
    actual.t = "SimpleString" /\ actual.v = expected

\* Connection::read_message that clears read_buf after every frame it has
\* read from the socket, whatever follows the frame
read_message_buffered_clearing(read_buf, wire) ==
    LET Fatal(r, buf, w) ==
            [st |-> IF r.err = "panic" THEN "panic" ELSE "err", read_buf |-> buf,
             wire |-> w,
             reply |-> IF r.err = "panic" THEN <<>>
                       ELSE <<encode_simple_error(ERR_PROTOCOL)>>]
        on_socket(r, buf) ==
            IF r.ok
            THEN [st |-> "ok", val |-> r.val, read_buf |-> <<>>,
                  wire |-> <<>>, reply |-> <<>>]
            ELSE IF r.err = "UnexpectedEndOfInput"
            THEN [st |-> "wait", read_buf |-> buf, wire |-> <<>>, reply |-> <<>>]
            ELSE Fatal(r, buf, <<>>)
        on_buffer(r) ==
            IF r.ok
            THEN [st |-> "ok", val |-> r.val,
                  read_buf |-> SubSeq(read_buf, r.pos, Len(read_buf)),
                  wire |-> wire, reply |-> <<>>]
            ELSE IF r.err # "UnexpectedEndOfInput" THEN Fatal(r, read_buf, wire)
            ELSE IF wire = <<>>
            THEN [st |-> "wait", read_buf |-> read_buf, wire |-> wire, reply |-> <<>>]
            ELSE on_socket(parse_buffer(read_buf \o wire), read_buf \o wire)
    IN  on_buffer(parse_buffer(read_buf))

\* Connection::read_message on a Connection whose read_buf holds `read_buf`
\* unread and whose socket has `wire` to hand over: a frame of the buffer if
\* it holds one, else the socket is read (should_read) and the buffer tried
\* again.  "wait" is a read that has not returned; `reply` is what
\* write_err answers a frame that cannot be parsed with.
read_message_buffered(read_buf, wire) ==
    LET Fatal(r, buf, w) ==
            [st |-> IF r.err = "panic" THEN "panic" ELSE "err", read_buf |-> buf,
             wire |-> w,
             reply |-> IF r.err = "panic" THEN <<>>
                       ELSE <<encode_simple_error(ERR_PROTOCOL)>>]
        on_socket(r, buf) ==
            IF r.ok
            THEN [st |-> "ok", val |-> r.val, read_buf |-> SubSeq(buf, r.pos, Len(buf)),
                  wire |-> <<>>, reply |-> <<>>]
            ELSE IF r.err = "UnexpectedEndOfInput"
            THEN [st |-> "wait", read_buf |-> buf, wire |-> <<>>, reply |-> <<>>]
            ELSE Fatal(r, buf, <<>>)
        on_buffer(r) ==
            IF r.ok
            THEN [st |-> "ok", val |-> r.val,
                  read_buf |-> SubSeq(read_buf, r.pos, Len(read_buf)),
                  wire |-> wire, reply |-> <<>>]
            ELSE IF r.err # "UnexpectedEndOfInput" THEN Fatal(r, read_buf, wire)
            ELSE IF wire = <<>>
            THEN [st |-> "wait", read_buf |-> read_buf, wire |-> wire, reply |-> <<>>]
            ELSE on_socket(parse_buffer(read_buf \o wire), read_buf \o wire)
    IN  on_buffer(parse_buffer(read_buf))

\* parse_until_crlf of connection.rs: a CR that no LF follows is kept with
\* the byte after it.
RECURSIVE Connection_parse_until_crlf(_, _, _)
Connection_parse_until_crlf(buf, pos, result) ==
    LET on_next(b, n) ==
            IF ~n.ok THEN n
            ELSE IF n.val = LF THEN Ok(result, n.pos)
            ELSE Connection_parse_until_crlf(buf, n.pos, result \o <<b.val, n.val>>)
        on_byte(b) ==
            IF ~b.ok THEN b
            ELSE IF b.val = CR THEN on_next(b, next_byte(buf, b.pos))
            ELSE Connection_parse_until_crlf(buf, b.pos, Append(result, b.val))
    IN  on_byte(next_byte(buf, pos))

\* Connection::read_rdb: one byte, a decimal length up to CRLF, then that
\* many bytes, all of them taken from read_buf; the socket is not read.
read_rdb(read_buf) ==
    LET Fail(pos) == [ok |-> FALSE, read_buf |-> SubSeq(read_buf, pos, Len(read_buf))]
        on_len(line, len) ==
            IF ~len.ok THEN Fail(line.pos)
            ELSE IF Len(read_buf) - line.pos + 1 < len.val THEN Fail(line.pos)
            ELSE [ok |-> TRUE,
                  data |-> SubSeq(read_buf, line.pos, line.pos + len.val - 1),
                  read_buf |-> SubSeq(read_buf, line.pos + len.val, Len(read_buf))]
        on_line(line) ==
            IF ~line.ok THEN Fail(Len(read_buf) + 1)
            ELSE IF ~IsUtf8(line.val) THEN Fail(line.pos)
            ELSE on_len(line, parse_u64(line.val))
        on_byte(b) ==
            IF ~b.ok THEN Fail(1)
            ELSE on_line(Connection_parse_until_crlf(read_buf, b.pos, <<>>))
    IN  on_byte(next_byte(read_buf, 1))

\* read_rdb on each buffer the replica can hold
BufferRdb == [b \in HandshakeBuffers |-> read_rdb(b)]

\* read_rdb on each buffer the replica can hold once its master forwards
LinkRdb == [b \in LinkBuffers |-> read_rdb(b)]

\* Connection::read_rdb on a buffer
read_rdb_buffer(b) ==
    IF b \in HandshakeBuffers THEN BufferRdb[b]
    ELSE IF b \in LinkBuffers THEN LinkRdb[b]
    ELSE read_rdb(b)

\* str::split(" "): the pieces between the spaces, empty pieces included
RECURSIVE split(_, _, _)
split(bs, i, piece) ==
    IF i > Len(bs) THEN <<piece>>
    ELSE IF bs[i] = SPACE THEN <<piece>> \o split(bs, i + 1, <<>>)
    ELSE split(bs, i + 1, Append(piece, bs[i]))

\* The outcome of an expect_*: the event, the info after it, and whether
\* the task panicked instead of returning one
Expect(event, info) == [event |-> event, info |-> info, panic |-> FALSE]

\* expect_pong / expect_ok on the result `r` of read_message
expect_simple(r, info, expected, msg) ==
    IF r.st = "ok" /\ r.val.t = "SimpleString" /\ r.val.v = expected
    THEN Expect(ReplicationEvents(IF expected = STR_PONG THEN "RecievedPong"
                                  ELSE "ReceivedOk"), info)
    ELSE Expect(ProtocolError(msg), info)

\* expect_full_resync on the result `r` of read_message
expect_full_resync(r, info) ==
    LET on_offset(id, offset) ==
            IF offset.ok
            THEN Expect(ReplicationEvents("ReceivedFullResync"),
                        [master_replid |-> id, master_repl_offset |-> offset.val])
            ELSE [event |-> ReplicationEvents("ReceivedFullResync"),
                  info |-> [info EXCEPT !.master_replid = id], panic |-> TRUE]
        on_parts(parts) ==
            IF Len(parts) = 3 /\ parts[1] = STR_FULLRESYNC
            THEN on_offset(parts[2], parse_i64(parts[3]))
            ELSE Expect(ProtocolError(
                     "ERR full resync should be 'FULLRESYNC <replid> <offset>'"), info)
    IN  IF r.st # "ok" \/ r.val.t # "BulkString"
        THEN Expect(ProtocolError("Invalid response from server, expected bulk string."),
                    info)
        ELSE IF ~IsUtf8(r.val.v)
        THEN Expect(ProtocolError("ERR full resync string is not valid utf8"), info)
        ELSE on_parts(split(r.val.v, 1, <<>>))

\* expect_rdb on the result `r` of read_rdb
expect_rdb(r, info) ==
    IF r.ok THEN Expect(ReplicationEvents("ReceivedRDB"), info)
    ELSE Expect(ProtocolError("Invalid response from server, expected rdb file."), info)

\* ReplicationProtocol::new, with the peer the stream is connected to:
\* `out` the frames written to the master, `recv` how many replies have been
\* read, `wire` what the socket holds unread, `buf` the buffer of a running
\* read_and_parse, `answered` and `burst` how far the master is in its
\* script, `prev`, `event` and `n` the last handle_event and their count.
ReplicationProtocol_new(listening_port, master) ==
    [state |-> ReplClientState("Initial"), pc |-> "loop", info |-> to_replica,
     listening_port |-> listening_port, out |-> <<>>, recv |-> 0, wire |-> <<>>,
     buf |-> <<>>, read_buf |-> <<>>, master |-> master, answered |-> 0, burst |-> 0,
     prev |-> ReplClientState("Initial"), event |-> ReplicationEvents("Start"),
     n |-> 0]

\* ReplicationProtocol::handle_event
ReplicationProtocol_handle_event(h, event) ==
    [h EXCEPT !.state = handle_event(h.state, event), !.prev = h.state,
              !.event = event, !.n = @ + 1]

\* A peer that sends nothing
NoMaster == [id |-> <<>>, off |-> 0, bursts |-> <<>>]

\* ------------------------------------------------------------------------
\* State
\* ------------------------------------------------------------------------
MaxConns == 3
MaxRequests == 3
\* Milliseconds the clock of the model runs for
MaxNow == 3

Conns == 1..MaxConns
NoConn == 0

VARIABLES
    db,            \* Database of the master: [store, ttl]
    now,           \* the clock, in milliseconds
    write_history, \* HistoryInner.write_history
    repls,         \* HistoryInner.repls: <<[conn, start_offset, last_offset]>>
    lock,          \* the connection whose task holds History.inner, or NoConn
    fan_i,         \* index into repls of the running add_write loop
    pc,            \* where the task of each connection of the master stands
    msg,           \* per connection: the request being handled, [message, raw]
    conn,          \* per connection: the write side of its Connection
    mark,          \* per connection: what add_replica found, [sent, raw, keys]
    budget,        \* frames the clients may still send
    appended_raw,  \* raw bytes of the requests given to add_write, in append order
    commit_raw,    \* raw bytes of the Write requests, in keyspace order
    rdb,           \* Database of the replica process fed by repls[1]
    rconn,         \* the replica's Connection to its master
    rpos,          \* forwarded bytes the replica's read_message has consumed
    roffset,       \* ServerInfo.master_repl_offset of the replica
    rpc,           \* where the replica's task stands
    hs,            \* the ReplicationProtocol of a replica and the master it talks to
    inb,           \* the replica's task on the link to its master, once start() is over
    codec,         \* a value or bytes handed to RespEncoder and RespParser
    framed         \* a Connection that reads a byte stream as it arrives

vars == <<db, now, write_history, repls, lock, fan_i, pc, msg, conn, mark, budget,
          appended_raw, commit_raw, rdb, rconn, rpos, roffset, rpc, hs, inb, codec, framed>>

master_vars == <<db, now, write_history, repls, lock, fan_i, pc, msg, conn, mark,
                 budget, appended_raw, commit_raw>>
replica_vars == <<rdb, rconn, rpos, roffset, rpc, hs, inb, codec, framed>>

NoMsg == [message |-> Null, raw |-> <<>>]
NoMark == [sent |-> 0, raw |-> 0, keys |-> {}]
Database_new == [store |-> EmptyMap, ttl |-> EmptyMap]

\* The replica's side of the link to its master when replicate_before_listen
\* starts: `pc` where the task stands, `db` the keyspace of the replica,
\* `conn` the write side of the Connection, `buf` the buffer of a running
\* read_and_parse, `msg_len` the length of the frame being executed;
\* `learned` the offset the handshake left, `consumed` the bytes taken from
\* the link since, `nfwd` the frames the master has sent since.
\* A Connection with nothing to read: the bytes its peer has yet to send,
\* the bytes in the socket, the unread bytes of read_buf, the values
\* read_message has returned, and what it returns when the whole stream
\* comes in one read
Framed_new ==
    [pc |-> "idle", stream |-> <<>>, wire |-> <<>>, read_buf |-> <<>>, got |-> <<>>,
     whole |-> [got |-> <<>>, pc |-> "read"], cut |-> FALSE]

\* No value handed to the codec
Codec_new == [pc |-> "idle", v |-> Null, bytes |-> <<>>, res |-> Err("none")]

Inbound_new ==
    [pc |-> "handshake", db |-> Database_new, conn |-> Connection_new, buf |-> <<>>,
     msg_len |-> 0, learned |-> 0, consumed |-> 0, nfwd |-> 0]

\* The state after construction, for a master with the connections `conns`
\* accepted and `requests` frames to come
InitServer(conns, requests) ==
    /\ db = Database_new
    /\ now = 0
    /\ write_history = <<>>
    /\ repls = <<>>
    /\ lock = NoConn
    /\ fan_i = 0
    /\ pc = [c \in conns |-> "read"]
    /\ msg = [c \in conns |-> NoMsg]
    /\ conn = [c \in conns |-> Connection_new]
    /\ mark = [c \in conns |-> NoMark]
    /\ budget = requests
    /\ appended_raw = <<>>
    /\ commit_raw = <<>>
    /\ rdb = Database_new
    /\ rconn = Connection_new
    /\ rpos = 0
    /\ roffset = 0
    /\ rpc = "read"
    /\ inb = Inbound_new

\* The same, with no handshake of a replica under way
InitWith(conns, requests) ==
    /\ InitServer(conns, requests)
    /\ hs = ReplicationProtocol_new(STR_PORT, NoMaster)
    /\ codec = Codec_new
    /\ framed = Framed_new

Init == InitWith(Conns, MaxRequests)

\* ------------------------------------------------------------------------
\* Dispatcher of a master connection (context.rs, master_exec_all)
\* ------------------------------------------------------------------------
\* What one iteration does with a decoded message: [conn, db, pc]
Step(cn, d, next) == [conn |-> cn, db |-> d, pc |-> next]

\* ReplconfCommand::execute with an ACK that always carries offset 0
ReplconfCommand_execute_zero_ack(args, cn, d, offset) ==
    LET on_ok(w) == IF w.ok THEN Step(w.conn, d, "hs_capa") ELSE Step(w.conn, d, "attach")
        on_ack(w) == IF w.ok THEN Step(w.conn, d, "getack") ELSE Step(w.conn, d, "read")
    IN  CASE args.kind = "ListeningPort" ->
                on_ok(Connection_write_str(cn, STR_OK, NoFail))
          [] args.kind = "GetAck" ->
                on_ack(write_all(cn, RequestBuilder_build(
                           <<STR_REPLCONF, STR_ACK, to_string(0)>>), NoFail))
          [] OTHER ->
                Step(Connection_write_err(cn, ERR_UNSUPPORTED_SEQ, NoFail).conn, d, "read")

\* ReplconfCommand::execute (internals.rs); `offset` is
\* info.get_master_repl_offset()
ReplconfCommand_execute(args, cn, d, offset) ==
    LET on_ok(w) == IF w.ok THEN Step(w.conn, d, "hs_capa") ELSE Step(w.conn, d, "attach")
        on_ack(w) == IF w.ok THEN Step(w.conn, d, "getack") ELSE Step(w.conn, d, "read")
    IN  CASE args.kind = "ListeningPort" ->
                \* ReplServerProtocol::start, state RecievedListeningPort: the
                \* result of start() is discarded and Replicate returned.
                on_ok(Connection_write_str(cn, STR_OK, NoFail))
          [] args.kind = "GetAck" ->
                \* RedisClient::repl_conf: write the request, then wait for a reply
                on_ack(write_all(cn, RequestBuilder_build(
                           <<STR_REPLCONF, STR_ACK, to_string(offset)>>), NoFail))
          [] OTHER ->
                Step(Connection_write_err(cn, ERR_UNSUPPORTED_SEQ, NoFail).conn, d, "read")

\* The match on the Transaction in master_exec_all, with Read taken for Write
TransactionNext_read_as_write(e) ==
    Step(e.conn, e.db,
         CASE e.txn = "Replicate" -> "attach"
           [] e.txn \in {"Write", "Read"} -> "write"
           [] OTHER -> "read")

\* The match on the Transaction in master_exec_all, with no arm for Write
TransactionNext_no_write(e) ==
    Step(e.conn, e.db, IF e.txn = "Replicate" THEN "attach" ELSE "read")

\* The match on the Transaction in master_exec_all, with None taken for Write
TransactionNext_none_as_write(e) ==
    Step(e.conn, e.db,
         CASE e.txn = "Replicate" -> "attach"
           [] e.txn \in {"Write", "None"} -> "write"
           [] OTHER -> "read")

\* Cmd::execute followed by the match on the Transaction
TransactionNext(e) ==
    Step(e.conn, e.db,
         CASE e.txn = "Replicate" -> "attach"
           [] e.txn = "Write" -> "write"
           [] OTHER -> "read")

\* Cmd::execute (command.rs): the command's own execute, its Transaction kept
Cmd_execute(cmd, cn, d, t, cut) ==
    CASE cmd.c = "Ping" -> PingCommand_execute(cn, d)
      [] cmd.c = "Info" -> InfoCommand_execute(cn, d)
      [] cmd.c = "Echo" -> EchoCommand_execute(cmd.args, cn, d)
      [] cmd.c = "Set" -> SetCommand_execute(cmd.args, cn, d, t)
      [] cmd.c = "Get" -> GetCommand_execute(cmd.args, cn, d, t)
      [] cmd.c = "Psync" -> PsyncCommand_execute(cn, d, cut)
      [] OTHER -> Exec(cn, d, "None")

master_exec(cn, d, t, message, cut) ==
    LET on_err(w) == Step(w.conn, d, IF w.ok THEN "read" ELSE "closed")
        on_cmd(cmd) ==
            CASE cmd.c = "Unexpected" ->
                    on_err(Connection_write_err(cn, ERR_PREFIX \o cmd.msg, NoFail))
              [] cmd.c = "ReplConf" ->
                    ReplconfCommand_execute(cmd.args, cn, d, info_master_repl_offset)
              [] OTHER -> TransactionNext(Cmd_execute(cmd, cn, d, t, cut))
    IN  on_cmd(CmdParser_parse(message))

\* Connection::read_message that fails on a frame it cannot parse without
\* answering it
read_message_silent(cn, raw) ==
    LET on_parse(r) ==
            IF r.ok THEN [ok |-> TRUE, conn |-> cn, val |-> r.val]
            ELSE IF r.err = "panic" THEN [ok |-> FALSE, conn |-> cn, panic |-> TRUE]
            ELSE [ok |-> FALSE, panic |-> FALSE, conn |-> cn]
    IN  on_parse(FrameParse[raw])

\* Connection::read_message on a buffer holding exactly the bytes `raw`:
\* check, then parse; a fatal parse error is answered and fails the call.
read_message(cn, raw) ==
    LET on_parse(r) ==
            IF r.ok THEN [ok |-> TRUE, conn |-> cn, val |-> r.val]
            ELSE IF r.err = "panic" THEN [ok |-> FALSE, conn |-> cn, panic |-> TRUE]
            ELSE [ok |-> FALSE, panic |-> FALSE,
                  conn |-> Connection_write_err(cn, ERR_PROTOCOL, NoFail).conn]
    IN  on_parse(FrameParse[raw])

\* A frame is deliverable when the buffer holds the whole of it and nothing
\* more: a truncated frame keeps read_message waiting for bytes.
Deliverable(raw) ==
    LET on_parse(r) ==
            IF r.ok THEN r.pos = Len(raw) + 1 ELSE r.err # "UnexpectedEndOfInput"
    IN  on_parse(FrameParse[raw])

\* The cuts a write of n bytes is tried under
Cuts(cn, n) == IF cn.sock_ok THEN {NoFail, n \div 2} ELSE {NoFail}

Request(c, raw) ==
    /\ pc[c] = "read"
    /\ budget > 0
    /\ Deliverable(raw)
    /\ LET on_exec(m, s) ==
               /\ conn' = [conn EXCEPT ![c] = s.conn]
               /\ db' = s.db
               /\ pc' = [pc EXCEPT ![c] = s.pc]
               /\ msg' = [msg EXCEPT ![c] =
                            IF s.pc = "write" THEN [message |-> m.val, raw |-> raw]
                            ELSE NoMsg]
               /\ commit_raw' = IF s.pc = "write" THEN commit_raw \o raw
                                ELSE commit_raw
           on_message(m) ==
               IF ~m.ok
               THEN /\ conn' = [conn EXCEPT ![c] = m.conn]
                    /\ pc' = [pc EXCEPT ![c] = "closed"]
                    /\ UNCHANGED <<db, msg, commit_raw>>
               ELSE \E cut \in (IF CmdParser_parse(m.val).c = "Psync"
                                THEN {NoFail, 0} ELSE {NoFail}) :
                        on_exec(m, master_exec(m.conn, db, now, m.val, cut))
       IN  on_message(read_message([conn[c] EXCEPT !.sent = <<>>], raw))
    /\ budget' = budget - 1
    /\ UNCHANGED <<now, write_history, repls, lock, fan_i, mark, appended_raw>>
    /\ UNCHANGED replica_vars

\* The socket of a client reaches end of file: read_message fails with
\* ConnectionClosed and the task ends.
Close(c) ==
    /\ pc[c] = "read"
    /\ pc' = [pc EXCEPT ![c] = "closed"]
    /\ UNCHANGED <<db, now, write_history, repls, lock, fan_i, msg, conn, mark, budget,
                   appended_raw, commit_raw>>
    /\ UNCHANGED replica_vars

\* The clock advances by a millisecond (Instant::now() is read by the
\* commands, never set)
Tick ==
    /\ now < MaxNow
    /\ now' = now + 1
    /\ UNCHANGED <<db, write_history, repls, lock, fan_i, pc, msg, conn, mark, budget,
                   appended_raw, commit_raw>>
    /\ UNCHANGED replica_vars

\* ReplServerProtocol::start after the first +OK (protocol.rs): the frame
\* read by expect_capabilities or expect_psync and what follows it.
\* An I/O error ends start() with Err, which ReplconfCommand::execute
\* discards before it returns Replicate; a ProtocolError state panics.
handshake_step(state, cn, raw, cut) ==
    LET on_ok(w) == [conn |-> w.conn, pc |-> IF w.ok THEN "hs_psync" ELSE "attach"]
        on_fullresync(w) ==
            IF ~w.ok THEN [conn |-> w.conn, pc |-> "attach"]
            ELSE [conn |-> Connection_flush(
                               Connection_write(
                                   Connection_write(w.conn,
                                       <<36>> \o to_string(Len(get_empty_rdb_file))
                                       \o CRLF),
                                   get_empty_rdb_file),
                               cut).conn,
                  pc |-> "attach"]
        on_args(m, parsed_args) ==
            IF ~parsed_args.ok THEN [conn |-> m.conn, pc |-> "attach"]
            ELSE IF state = "hs_capa"
            THEN IF parsed_args.c = "Replconf" /\ parsed_args.args.kind = "Capa"
                    /\ parsed_args.args.val = STR_psync2
                 THEN on_ok(Connection_write_str(m.conn, STR_OK, NoFail))
                 ELSE [conn |-> m.conn, pc |-> "closed"]
            ELSE IF parsed_args.c = "Psync"
                 THEN on_fullresync(
                          Connection_write_bytes(m.conn,
                              STR_FULLRESYNC \o <<SPACE>> \o info_master_replid
                              \o <<SPACE>> \o to_string(info_master_repl_offset),
                              NoFail))
                 ELSE [conn |-> m.conn, pc |-> "closed"]
        on_message(m) ==
            IF ~m.ok THEN [conn |-> m.conn, pc |-> IF m.panic THEN "closed" ELSE "attach"]
            ELSE IF m.val.t # "Array" THEN [conn |-> m.conn, pc |-> "closed"]
            ELSE on_args(m, ArgumentParser_get_from(m.val.v))
    IN  on_message(read_message(cn, raw))

HandshakeRead(c, raw) ==
    /\ pc[c] \in {"hs_capa", "hs_psync"}
    /\ budget > 0
    /\ Deliverable(raw)
    /\ LET on_step(s) ==
               /\ conn' = [conn EXCEPT ![c] = s.conn]
               /\ pc' = [pc EXCEPT ![c] = s.pc]
       IN  \E cut \in {NoFail, 0} :
               on_step(handshake_step(pc[c], [conn[c] EXCEPT !.sent = <<>>], raw, cut))
    /\ budget' = budget - 1
    /\ UNCHANGED <<db, now, write_history, repls, lock, fan_i, msg, mark,
                   appended_raw, commit_raw>>
    /\ UNCHANGED replica_vars

\* read_and_parse (server.rs) inside RedisClient::repl_conf: the next frame
\* on the connection is taken as the reply to REPLCONF ACK.
GetAckRead(c, raw) ==
    /\ pc[c] = "getack"
    /\ budget > 0
    /\ Deliverable(raw)
    /\ LET on_parse(r) ==
               pc' = [pc EXCEPT ![c] = IF r.ok THEN "read"
                                       ELSE IF r.err = "panic" THEN "closed"
                                       ELSE "stalled"]
       IN  on_parse(FrameParse[raw])
    /\ conn' = [conn EXCEPT ![c].sent = <<>>]
    /\ budget' = budget - 1
    /\ UNCHANGED <<db, now, write_history, repls, lock, fan_i, msg, mark,
                   appended_raw, commit_raw>>
    /\ UNCHANGED replica_vars

\* ------------------------------------------------------------------------
\* Replication ledger (history.rs)
\* ------------------------------------------------------------------------
\* Replica::new with the delivery offset left at zero
Replica_new_from_zero(stream, start_offset, last_offset) ==
    [conn |-> stream, start_offset |-> start_offset, last_offset |-> 0]

Replica_new(stream, start_offset, last_offset) ==
    [conn |-> stream, start_offset |-> start_offset, last_offset |-> last_offset]

\* The dispatcher after add_replica, had the loop gone on instead of breaking
after_add_replica_loop(c) == "read"

\* master_exec_all after history.add_replica(self.stream): break Ok(())
after_add_replica(c) == "replica"

\* add_replica on the list itself, the mutex not taken
AddReplica_unlocked(c) ==
    /\ pc[c] = "attach"
    /\ LET offset == Len(write_history)
       IN  repls' = Append(repls, Replica_new(c, offset, offset))
    /\ mark' = [mark EXCEPT ![c] = [sent |-> Len(conn[c].sent),
                                    raw |-> Len(appended_raw),
                                    keys |-> DOMAIN db.store]]
    /\ pc' = [pc EXCEPT ![c] = after_add_replica(c)]
    /\ UNCHANGED <<db, now, write_history, lock, fan_i, msg, conn, budget,
                   appended_raw, commit_raw>>
    /\ UNCHANGED replica_vars

\* History::add_replica: lock, push, unlock
AddReplica(c) ==
    /\ pc[c] = "attach"
    /\ lock = NoConn
    /\ LET offset == Len(write_history)
       IN  repls' = Append(repls, Replica_new(c, offset, offset))
    /\ mark' = [mark EXCEPT ![c] = [sent |-> Len(conn[c].sent),
                                    raw |-> Len(appended_raw),
                                    keys |-> DOMAIN db.store]]
    /\ pc' = [pc EXCEPT ![c] = after_add_replica(c)]
    /\ UNCHANGED <<db, now, write_history, lock, fan_i, msg, conn, budget,
                   appended_raw, commit_raw>>
    /\ UNCHANGED replica_vars

\* History::add_write up to the first replica: lock, encode the message
\* into write_history
AddWriteBegin(c) ==
    /\ pc[c] = "write"
    /\ lock = NoConn
    /\ lock' = c
    /\ write_history' = write_history \o encode_resp(msg[c].message)
    /\ appended_raw' = appended_raw \o msg[c].raw
    /\ fan_i' = 1
    /\ pc' = [pc EXCEPT ![c] = "fanout"]
    /\ UNCHANGED <<db, now, repls, msg, conn, mark, budget, commit_raw>>
    /\ UNCHANGED replica_vars

\* One turn of the loop, with update_offset reached only after a good flush
fan_out_offset_on_success(replica, cn, history, cut) ==
    LET on_flush(f) ==
            [conn |-> f.conn, flushed |-> f.ok,
             replica |-> IF f.ok THEN [replica EXCEPT !.last_offset = Len(history)]
                         ELSE replica]
    IN  on_flush(Connection_flush(
                     Connection_write(cn, SubSeq(history, replica.last_offset + 1,
                                                 Len(history))),
                     cut))

\* One turn of the loop over repls: write the delta, flush, update_offset
fan_out(replica, cn, history, cut) ==
    LET on_flush(f) ==
            [conn |-> f.conn, flushed |-> f.ok,
             replica |-> [replica EXCEPT !.last_offset = Len(history)]]
    IN  on_flush(Connection_flush(
                     Connection_write(cn, SubSeq(history, replica.last_offset + 1,
                                                 Len(history))),
                     cut))

\* The writer after one turn, had the flush result been returned with `?`
add_write_continue_propagate(flushed) == IF flushed THEN "fanout" ELSE "closed"

\* `let _ = replica.stream.flush().await;`: the result is dropped and the
\* loop goes on
add_write_continue(flushed) == "fanout"

AddWriteFanOut(c) ==
    /\ pc[c] = "fanout"
    /\ lock = c
    /\ fan_i <= Len(repls)
    /\ LET replica == repls[fan_i]
           cn == conn[replica.conn]
           pending == Len(cn.write_buf) + Len(write_history) - replica.last_offset
           on_turn(r) ==
               /\ conn' = [conn EXCEPT ![replica.conn] = r.conn]
               /\ repls' = [repls EXCEPT ![fan_i] = r.replica]
               /\ pc' = [pc EXCEPT ![c] = add_write_continue(r.flushed)]
       IN  \E cut \in Cuts(cn, pending) :
               on_turn(fan_out(replica, cn, write_history, cut))
    /\ fan_i' = fan_i + 1
    /\ UNCHANGED <<db, now, write_history, lock, msg, mark, budget,
                   appended_raw, commit_raw>>
    /\ UNCHANGED replica_vars

\* add_write returns: the guard is dropped, the dispatcher loops
AddWriteEnd(c) ==
    /\ pc[c] = "fanout"
    /\ lock = c
    /\ fan_i > Len(repls)
    /\ lock' = NoConn
    /\ fan_i' = 0
    /\ pc' = [pc EXCEPT ![c] = "read"]
    /\ msg' = [msg EXCEPT ![c] = NoMsg]
    /\ UNCHANGED <<db, now, write_history, repls, conn, mark, budget,
                   appended_raw, commit_raw>>
    /\ UNCHANGED replica_vars

\* ------------------------------------------------------------------------
\* The replica process behind repls[1] (context.rs, replica_exec_all)
\* ------------------------------------------------------------------------
\* The bytes the socket of replica r has accepted since add_replica
Forwarded(r) == SubSeq(conn[r.conn].sent, mark[r.conn].sent + 1, Len(conn[r.conn].sent))

close_write(cn) == [cn EXCEPT !.writable = FALSE]
open_write(cn) == [cn EXCEPT !.writable = TRUE]

\* One iteration of replica_exec_all on a decoded message of msg_len bytes:
\* [conn, db, offset, pc]
replica_exec(cn, d, t, message, msg_len, offset) ==
    LET on_err(w) ==
            IF w.ok THEN [conn |-> w.conn, db |-> d, offset |-> offset + msg_len,
                          pc |-> "read"]
            ELSE [conn |-> w.conn, db |-> d, offset |-> offset, pc |-> "closed"]
        on_replconf(s) ==
            [conn |-> s.conn, db |-> s.db,
             offset |-> IF s.pc = "read" THEN offset + msg_len ELSE offset,
             pc |-> s.pc]
        on_exec(e) ==
            [conn |-> open_write(e.conn), db |-> e.db,
             offset |-> offset + msg_len, pc |-> "read"]
        on_cmd(cmd) ==
            CASE cmd.c = "Unexpected" ->
                    on_err(Connection_write_err(cn, ERR_PREFIX \o cmd.msg, NoFail))
              [] cmd.c = "ReplConf" ->
                    on_replconf(ReplconfCommand_execute(cmd.args, cn, d, offset))
              [] OTHER -> on_exec(Cmd_execute(cmd, close_write(cn), d, t, NoFail))
    IN  on_cmd(CmdParser_parse(message))

\* read_message on the bytes the master forwarded, then the iteration
ReplicaApply ==
    /\ rpc = "read"
    /\ Len(repls) >= 1
    /\ LET cn == [rconn EXCEPT !.sent = <<>>]
           on_exec(r, s) ==
               /\ rconn' = s.conn
               /\ rdb' = s.db
               /\ roffset' = s.offset
               /\ rpc' = s.pc
               /\ rpos' = r.pos - 1
           on_parse(stream, r) ==
               /\ rpos < Len(stream)
               /\ IF r.ok
                  THEN on_exec(r, replica_exec(cn, rdb, now, r.val, r.pos - 1 - rpos,
                                               roffset))
                  ELSE /\ r.err # "UnexpectedEndOfInput"
                       /\ rconn' = IF r.err = "panic" THEN cn
                                   ELSE Connection_write_err(cn, ERR_PROTOCOL,
                                                             NoFail).conn
                       /\ rpc' = "closed"
                       /\ UNCHANGED <<rdb, roffset, rpos>>
           on_stream(stream) == on_parse(stream, parse(stream, rpos + 1))
       IN  on_stream(Forwarded(repls[1]))
    /\ UNCHANGED <<master_vars, hs, inb, codec, framed>>

\* ------------------------------------------------------------------------
\* Specification of the ledger: writers and replicas of one master
\* ------------------------------------------------------------------------
Menu == {REQ_PSYNC, REQ_SET_K_1, FRAME_SET_PADDED}

Next ==
    \/ \E c \in DOMAIN pc, raw \in Menu : Request(c, raw)
    \/ \E c \in DOMAIN pc : AddReplica(c)
    \/ \E c \in DOMAIN pc : AddWriteBegin(c)
    \/ \E c \in DOMAIN pc : AddWriteFanOut(c)
    \/ \E c \in DOMAIN pc : AddWriteEnd(c)

Spec == Init /\ [][Next]_vars

\* ------------------------------------------------------------------------
\* Specification of the dispatcher: a client that sends every kind of
\* request (connection 1) beside connections that ask to replicate
\* ------------------------------------------------------------------------
MaxVocabConns == 2
MaxVocabRequests == 3

InitVocab == InitWith(1..MaxVocabConns, MaxVocabRequests)

VocabMenu ==
    {REQ_PING, REQ_ECHO, REQ_INFO, REQ_GET_K, REQ_FOO, REQ_SET_K_1, REQ_SET_K_3_NX,
     REQ_SET_K_3_XX, REQ_SET_K, REQ_REPLCONF_PORT, REQ_REPLCONF_GETACK, REQ_PSYNC,
     FRAME_SIMPLE_HI, FRAME_BAD_LENGTH}

FollowerMenu == {REQ_PSYNC, REQ_REPLCONF_PORT}

HandshakeMenu == {REQ_REPLCONF_CAPA, REQ_PSYNC, REQ_PING, FRAME_BAD_TYPE}

NextVocab ==
    \/ \E raw \in VocabMenu : Request(1, raw)
    \/ \E c \in DOMAIN pc \ {1}, raw \in FollowerMenu : Request(c, raw)
    \/ \E c \in DOMAIN pc, raw \in HandshakeMenu : HandshakeRead(c, raw)
    \/ \E c \in DOMAIN pc, raw \in HandshakeMenu : GetAckRead(c, raw)
    \/ \E c \in DOMAIN pc : AddReplica(c)
    \/ \E c \in DOMAIN pc : AddWriteBegin(c)
    \/ \E c \in DOMAIN pc : AddWriteFanOut(c)
    \/ \E c \in DOMAIN pc : AddWriteEnd(c)
    \/ \E c \in DOMAIN pc : Close(c)

SpecVocab == InitVocab /\ [][NextVocab]_vars

\* ------------------------------------------------------------------------
\* Specification of replication: one writing client (connection 1), one
\* connection that asks to replicate (connection 2), the replica process
\* behind it
\* ------------------------------------------------------------------------
MaxReplRequests == 4

InitRepl == InitWith({1, 2}, MaxReplRequests)

WriterMenu == {REQ_SET_K_1, REQ_SET_K_3_NX, REQ_SET_K_2_XX_GET, REQ_SET_J_2_GET}

NextRepl ==
    \/ \E raw \in WriterMenu : Request(1, raw)
    \/ \E c \in DOMAIN pc \ {1} : Request(c, REQ_PSYNC)
    \/ \E c \in DOMAIN pc : AddReplica(c)
    \/ \E c \in DOMAIN pc : AddWriteBegin(c)
    \/ \E c \in DOMAIN pc : AddWriteFanOut(c)
    \/ \E c \in DOMAIN pc : AddWriteEnd(c)
    \/ ReplicaApply

SpecRepl == InitRepl /\ [][NextRepl]_vars

\* ------------------------------------------------------------------------
\* Properties of the ledger
\* ------------------------------------------------------------------------
Attached == {repls[i].conn : i \in 1..Len(repls)}

\* C1: while no add_write is running, the bytes a replica with a working
\* socket has been sent since add_replica are exactly the bytes of the
\* requests handed to add_write since then, in the order of the appends.
C1_ForwardedIsRequests ==
    \A i \in 1..Len(repls) :
        (lock = NoConn /\ conn[repls[i].conn].sock_ok)
            => Forwarded(repls[i])
                 = SubSeq(appended_raw, mark[repls[i].conn].raw + 1, Len(appended_raw))

\* C2: whenever no add_write is running, every replica of the list has
\* last_offset equal to the length of write_history.
C2_OffsetsAtLedgerEnd ==
    lock = NoConn =>
        \A i \in 1..Len(repls) : repls[i].last_offset = Len(write_history)

\* A replica whose socket has failed went through a completed add_write
C2_Witness ==
    /\ lock = NoConn
    /\ \E i \in 1..Len(repls) :
         /\ repls[i].last_offset > repls[i].start_offset
         /\ ~conn[repls[i].conn].sock_ok

\* C3: every replica of the list has
\* start_offset <= last_offset <= Len(write_history), in every state.
C3_OffsetsOrdered ==
    \A i \in 1..Len(repls) :
        /\ repls[i].start_offset <= repls[i].last_offset
        /\ repls[i].last_offset <= Len(write_history)

\* A replica attached to a ledger that held bytes, then a write, its fan-out
\* under way
C3_Witness ==
    \E i \in 1..Len(repls) :
        /\ 0 < repls[i].start_offset
        /\ repls[i].start_offset < repls[i].last_offset
        /\ lock # NoConn

\* C4: once add_write has returned, no replica whose socket failed while a
\* delta was written to it is left in the list.
C4_FailedReplicaDropped ==
    lock = NoConn =>
        \A i \in 1..Len(repls) :
            repls[i].last_offset > repls[i].start_offset => conn[repls[i].conn].sock_ok

\* C5: while a writer is inside add_write, whatever happens to the replicas'
\* sockets, the writer's own connection (the reply it was sent, the state
\* of its socket) does not change and the writer goes back to reading.
C5_WriterUnaffected ==
    [][\A c \in DOMAIN pc :
          pc[c] = "fanout" => /\ pc'[c] \in {"fanout", "read"}
                              /\ conn'[c] = conn[c]]_vars

\* A replica's socket failed in the middle of a delta, and the writer is
\* back at reading with its +OK
C5_Witness ==
    \E c \in DOMAIN pc : \E i \in 1..Len(repls) :
        /\ pc[c] = "read"
        /\ lock = NoConn
        /\ conn[c].sock_ok
        /\ conn[c].sent = encode_simple_string(STR_OK)
        /\ ~conn[repls[i].conn].sock_ok
        /\ Len(Forwarded(repls[i])) > 0

\* C6: write_history holds, byte for byte, the requests handed to add_write.
C6_LedgerHoldsRequestBytes == write_history = appended_raw

\* C9: once every write has been appended, the order of the appends is the
\* order in which the writes were applied to the keyspace.
C9_LedgerInCommitOrder ==
    (lock = NoConn /\ \A c \in DOMAIN pc : pc[c] \notin {"write", "fanout"})
        => appended_raw = commit_raw

\* ------------------------------------------------------------------------
\* Properties of the dispatcher
\* ------------------------------------------------------------------------
\* A step that changes the ledger bytes, the offsets of a replica of the
\* list, or what a replica of the list has been sent
LedgerTouched ==
    \/ write_history' # write_history
    \/ SubSeq(repls', 1, Len(repls)) # repls
    \/ \E r \in Attached : conn'[r] # conn[r]

\* The request message is a SET whose NX/XX precondition held on database d
\* and whose value database e holds
SetApplied(message, d, e) ==
    LET cmd == CmdParser_parse(message)
    IN  /\ cmd.c = "Set"
        /\ cmd.args.nx => cmd.args.key \notin DOMAIN d.store
        /\ (~cmd.args.nx /\ cmd.args.xx) => cmd.args.key \in DOMAIN d.store
        /\ cmd.args.key \in DOMAIN e.store
        /\ e.store[cmd.args.key].data = cmd.args.value.data

\* C7: a step touches the ledger only as part of the add_write of a SET
\* request, and a request is handed to add_write only when it is a SET whose
\* NX/XX precondition held and which was applied.
C7_OnlyWritesTouchLedger ==
    [][/\ LedgerTouched =>
            \E c \in DOMAIN pc : /\ pc[c] \in {"write", "fanout"}
                                 /\ pc'[c] = "fanout"
                                 /\ CmdParser_parse(msg[c].message).c = "Set"
       /\ \A c \in DOMAIN pc :
            (pc[c] # "write" /\ pc'[c] = "write") => SetApplied(msg'[c].message, db, db')
      ]_vars

\* With a replica attached and up to date, the client was answered the null
\* bulk string by a SET NX of a key that exists
C7_Witness ==
    /\ Len(repls) >= 1
    /\ lock = NoConn
    /\ repls[1].last_offset = Len(write_history)
    /\ KEY_K \in DOMAIN db.store
    /\ \E c \in DOMAIN pc : /\ pc[c] = "read"
                            /\ conn[c].sent = encode_bulk_string_null

\* C8: a connection whose command was classified Replicate is pushed with
\* start_offset = last_offset = Len(write_history), and from then on its task
\* never reads a request again.
C8_ReplicateHandsOver ==
    [][\A c \in DOMAIN pc :
          /\ pc[c] = "attach" => pc'[c] \in {"attach", "replica"}
          /\ (pc[c] = "attach" /\ pc'[c] = "replica") =>
                repls' = Append(repls, [conn |-> c,
                                        start_offset |-> Len(write_history),
                                        last_offset |-> Len(write_history)])
          /\ pc[c] = "replica" => (pc'[c] = "replica" /\ msg'[c] = msg[c])
      ]_vars

\* A connection was pushed when the ledger held bytes, and frames were read
\* from the others afterwards
C8_Witness ==
    /\ budget = 0
    /\ \E i \in 1..Len(repls) :
         /\ repls[i].start_offset > 0
         /\ pc[repls[i].conn] = "replica"
         /\ Len(write_history) > repls[i].start_offset

\* ------------------------------------------------------------------------
\* Properties of replication
\* ------------------------------------------------------------------------
\* The keys of the SET requests in a stream of frames
RECURSIVE StreamKeys(_, _)
StreamKeys(stream, pos) ==
    IF pos > Len(stream) THEN {}
    ELSE LET r == parse(stream, pos)
         IN  IF ~r.ok THEN {}
             ELSE LET cmd == CmdParser_parse(r.val)
                  IN  (IF cmd.c = "Set" THEN {cmd.args.key} ELSE {})
                          \cup StreamKeys(stream, r.pos)

\* The master is idle, the socket of the replica works and the replica has
\* executed every frame it was sent
Converged ==
    /\ Len(repls) >= 1
    /\ lock = NoConn
    /\ \A c \in DOMAIN pc : pc[c] \notin {"write", "fanout"}
    /\ conn[repls[1].conn].sock_ok
    /\ rpc = "read"
    /\ rpos = Len(Forwarded(repls[1]))

SameValue(k) ==
    /\ k \in DOMAIN db.store
    /\ k \in DOMAIN rdb.store
    /\ rdb.store[k].data = db.store[k].data

MaxSetRequests == 3

InitSet == InitWith({1}, MaxSetRequests)

SetMenu ==
    {REQ_SET_K_1, REQ_SET_K_3_NX, REQ_SET_K_3_XX, REQ_SET_K_2_GET, REQ_SET_K_2_XX_GET,
     REQ_SET_K_3_NX_GET, REQ_SET_K_1_NX_XX, REQ_GET_K, REQ_FOO, FRAME_EMPTY_ARRAY}

BadOptionMenu ==
    {REQ_SET_K_1_EX_FOO, REQ_SET_K_1_EX_NEG, REQ_SET_K_1_EX, REQ_SET_K_1_PX_FOO,
     REQ_SET_K_1_PX_NEG, REQ_SET_K_1_PX, REQ_SET_K_1_FOO, REQ_SET_K_1_NOT_UTF8}

NextSet ==
    \/ \E raw \in SetMenu : Request(1, raw)
    \/ \E raw \in BadOptionMenu : Request(1, raw)
    \/ \E c \in DOMAIN pc : AddWriteBegin(c)
    \/ \E c \in DOMAIN pc : AddWriteEnd(c)

SpecSet == InitSet /\ [][NextSet]_vars

\* ------------------------------------------------------------------------
\* Properties of the command layer
\* ------------------------------------------------------------------------
\* The command CmdParser::parse makes of a frame of the menus
FrameCmd(raw) == CmdParser_parse(FrameParse[raw].val)

\* bs is exactly one simple-error frame whose text starts with ERR
IsErrReply(bs) ==
    LET on_parse(r) ==
            /\ r.ok
            /\ r.pos = Len(bs) + 1
            /\ r.val.t = "SimpleError"
            /\ Len(r.val.v) >= 3
            /\ SubSeq(r.val.v, 1, 3) = <<69, 82, 82>>
    IN  on_parse(parse(bs, 1))

\* C11: on a client connection the reply to a request is on the socket
\* before the next request is read: when read_message has returned a
\* request and the dispatcher is through with it, the socket has accepted
\* reply bytes for it.
C11_ReplyBeforeNextRead ==
    [][\A raw \in SetMenu \cup BadOptionMenu :
           Request(1, raw) => conn'[1].sent # <<>>]_vars

\* C12: a SET with NX alone on a key that has a record, or with XX alone on
\* a key that has none, replies null bulk, leaves the keyspace as it was, is
\* classified None and leads to no add_write.
C12_FailedPreconditionIsNone ==
    [][\A raw \in SetMenu :
           (/\ Request(1, raw)
            /\ FrameCmd(raw).c = "Set"
            /\ \/ FrameCmd(raw).args.nx /\ ~FrameCmd(raw).args.xx
                  /\ FrameCmd(raw).args.key \in DOMAIN db.store
               \/ FrameCmd(raw).args.xx /\ ~FrameCmd(raw).args.nx
                  /\ FrameCmd(raw).args.key \notin DOMAIN db.store)
           => /\ conn'[1].sent = encode_bulk_string_null
              /\ db' = db
              /\ SetCommand_execute(FrameCmd(raw).args, conn[1], db, now).txn = "None"
              /\ pc'[1] = "read"
              /\ write_history' = write_history]_vars

\* A second request was answered null bulk while k holds the record the
\* first request stored and nothing else was written: NX on a key that has
\* a record.
C12_Witness ==
    /\ pc[1] = "read"
    /\ budget = MaxSetRequests - 2
    /\ conn[1].sent = encode_bulk_string_null
    /\ KEY_K \in DOMAIN db.store
    /\ db.store[KEY_K].data = VAL_1
    /\ write_history = REQ_SET_K_1

\* C13: SET with GET and without NX on a key that has a record replies the
\* bytes of that record as a bulk string, stores the new value and is a
\* Write; plain SET with GET on a key that has none replies null bulk and
\* stores the value.
C13_GetOptionRepliesPrevious ==
    [][\A raw \in SetMenu :
           (/\ Request(1, raw)
            /\ FrameCmd(raw).c = "Set"
            /\ FrameCmd(raw).args.get
            /\ ~FrameCmd(raw).args.nx)
           => IF FrameCmd(raw).args.key \in DOMAIN db.store
              THEN /\ conn'[1].sent =
                          encode_bulk_string(db.store[FrameCmd(raw).args.key].data)
                   /\ db'.store[FrameCmd(raw).args.key] = FrameCmd(raw).args.value
                   /\ pc'[1] = "write"
              ELSE ~FrameCmd(raw).args.xx
                   => /\ conn'[1].sent = encode_bulk_string_null
                      /\ db'.store[FrameCmd(raw).args.key] = FrameCmd(raw).args.value
                      /\ pc'[1] = "write"]_vars

\* C14: SET with both NX and XX is answered with an error frame and changes
\* neither the keyspace nor the ledger.
C14_NxWithXxRejected ==
    [][Request(1, REQ_SET_K_1_NX_XX)
       => /\ IsErrReply(conn'[1].sent)
          /\ db' = db
          /\ pc'[1] = "read"
          /\ write_history' = write_history]_vars

\* C15: SET with an option that does not parse (EX or PX with a value that
\* is no integer, is negative or is missing, an option name that is unknown
\* or not UTF-8) is answered with one error frame, changes neither the
\* keyspace nor the ledger, and the connection reads its next request.
C15_BadOptionsRejected ==
    [][\A raw \in BadOptionMenu :
           Request(1, raw)
           => /\ IsErrReply(conn'[1].sent)
              /\ db' = db
              /\ pc'[1] = "read"
              /\ write_history' = write_history]_vars

\* SET k 1 EX -1 was answered after k had been stored: the reply is the
\* error of the seconds value, k holds what it held.
C15_Witness ==
    /\ pc[1] = "read"
    /\ conn[1].sent = encode_simple_error(ERR_PREFIX \o MSG_SECONDS_VALUE)
    /\ KEY_K \in DOMAIN db.store
    /\ write_history = REQ_SET_K_1

\* 'ERR unknown or unexpected command'
ERR_UNKNOWN_COMMAND ==
    <<69, 82, 82, 32, 117, 110, 107, 110, 111, 119, 110, 32, 111, 114, 32, 117, 110,
      101, 120, 112, 101, 99, 116, 101, 100, 32, 99, 111, 109, 109, 97, 110, 100>>

\* C18: a request with an unknown command name, and the empty array, is
\* answered -ERR unknown or unexpected command, and the connection reads its
\* next request.
C18_UnknownCommandAnswered ==
    [][\A raw \in {REQ_FOO, FRAME_EMPTY_ARRAY} :
           Request(1, raw)
           => /\ conn'[1].sent = encode_simple_error(ERR_UNKNOWN_COMMAND)
              /\ pc'[1] = "read"]_vars

\* ------------------------------------------------------------------------
\* Specification of expiry: a client (connection 1) that stores k with and
\* without a ttl and reads it while the clock runs, beside a connection
\* that asks to replicate
\* ------------------------------------------------------------------------
MaxExpiryRequests == 4

InitExpiry == InitWith({1, 2}, MaxExpiryRequests)

ExpiryMenu == {REQ_SET_K_1_PX_2, REQ_SET_K_1, REQ_GET_K}

NextExpiry ==
    \/ \E raw \in ExpiryMenu : Request(1, raw)
    \/ \E c \in DOMAIN pc \ {1} : Request(c, REQ_PSYNC)
    \/ \E c \in DOMAIN pc : AddReplica(c)
    \/ \E c \in DOMAIN pc : AddWriteBegin(c)
    \/ \E c \in DOMAIN pc : AddWriteFanOut(c)
    \/ \E c \in DOMAIN pc : AddWriteEnd(c)
    \/ Tick

SpecExpiry == InitExpiry /\ [][NextExpiry]_vars

\* C16: a GET that finds an expired record removes the key and replies
\* null bulk, touches neither the ledger nor any other connection and is
\* followed by no add_write; a key that is absent stays absent, and GET of
\* it replies null bulk, until a SET stores it.
C16_ExpiredKeyStaysDeleted ==
    [][/\ (/\ Request(1, REQ_GET_K)
           /\ KEY_K \in DOMAIN db.store
           /\ Record_has_expired(db.store[KEY_K], now))
          => /\ conn'[1].sent = encode_bulk_string_null
             /\ KEY_K \notin DOMAIN db'.store
             /\ write_history' = write_history
             /\ repls' = repls
             /\ \A c \in DOMAIN conn \ {1} : conn'[c] = conn[c]
             /\ pc'[1] = "read"
       /\ (Request(1, REQ_GET_K) /\ KEY_K \notin DOMAIN db.store)
          => /\ conn'[1].sent = encode_bulk_string_null
             /\ KEY_K \notin DOMAIN db'.store
       /\ (KEY_K \notin DOMAIN db.store /\ KEY_K \in DOMAIN db'.store)
          => \E raw \in {REQ_SET_K_1_PX_2, REQ_SET_K_1} : Request(1, raw)]_vars

\* After the expired k was deleted by a GET, a later GET is answered null
\* bulk while a replica is attached: k is absent, the ledger holds the one
\* SET and the replica was sent nothing.
C16_Witness ==
    /\ pc[1] = "read"
    /\ budget = 0
    /\ conn[1].sent = encode_bulk_string_null
    /\ KEY_K \notin DOMAIN db.store
    /\ write_history = REQ_SET_K_1_PX_2
    /\ Len(repls) = 1
    /\ repls[1].start_offset = 0
    /\ Forwarded(repls[1]) = REQ_SET_K_1_PX_2

handshake_unchanged ==
    UNCHANGED master_vars /\ UNCHANGED <<rdb, rconn, rpos, roffset, rpc, inb, codec, framed>>

\* RedisClient::ping / repl_conf / psync up to the write: the request
\* joins the bytes written to the master.
client_write(h, args, pc_after) ==
    [h EXCEPT !.out = Append(@, RequestBuilder_build(args)), !.pc = pc_after]

\* ReplicationProtocol::start: the top of one iteration of the loop, up to
\* the first read that has to wait for the master.
ProtocolLoop ==
    /\ hs.pc = "loop"
    /\ hs' = CASE hs.state.tag = "Initial" ->
                    ReplicationProtocol_handle_event(hs, ReplicationEvents("Start"))
               [] hs.state.tag = "Ping" -> client_write(hs, <<STR_PING>>, "client_read")
               [] hs.state.tag = "NotifyListeningPort" ->
                    client_write(hs, <<STR_REPLCONF, STR_listening_port,
                                       hs.listening_port>>, "client_read")
               [] hs.state.tag = "NotifyCapabilities" ->
                    client_write(hs, <<STR_REPLCONF, STR_capa, STR_psync2>>,
                                 "client_read")
               [] hs.state.tag = "RequestPsync" ->
                    client_write(hs, <<STR_PSYNC, hs.info.master_replid,
                                       to_string(hs.info.master_repl_offset)>>,
                                 "response")
               [] hs.state.tag = "FullResync" -> [hs EXCEPT !.pc = "response"]
               [] OTHER -> [hs EXCEPT !.pc = "done"]
    /\ handshake_unchanged

\* RedisClient::ping / repl_conf after the write: read_and_parse, then
\* assert_res_is_simple; an Err leaves start through `?`.
ClientRead ==
    /\ hs.pc = "client_read"
    /\ hs.wire # <<>>
    /\ LET expected == IF hs.state.tag = "Ping" THEN STR_PONG ELSE STR_OK
           on_read(r) ==
               hs' = [hs EXCEPT !.wire = <<>>, !.buf = r.buf,
                                !.recv = IF r.st = "ok" THEN @ + 1 ELSE @,
                                !.pc = CASE r.st = "wait" -> "client_read"
                                         [] r.st = "panic" -> "panic"
                                         [] assert_res_is_simple(r.val, expected) ->
                                                "response"
                                         [] OTHER -> "failed"]
       IN  on_read(read_and_parse(hs.buf, hs.wire))
    /\ handshake_unchanged

\* handle_response on the state, then handle_event on what it returns
ProtocolResponse ==
    /\ hs.pc = "response"
    /\ LET on_expect(r, e) ==
               hs' = [ReplicationProtocol_handle_event(
                          [hs EXCEPT !.info = e.info], e.event)
                      EXCEPT !.read_buf = r.read_buf, !.wire = r.wire,
                             !.out = @ \o r.reply,
                             !.recv = IF r.st = "ok" THEN @ + 1 ELSE @,
                             !.pc = IF e.panic \/ r.st = "panic" THEN "panic"
                                    ELSE "loop"]
           on_message(r) ==
               IF r.st = "wait"
               THEN /\ hs.wire # <<>>
                    /\ hs' = [hs EXCEPT !.read_buf = r.read_buf, !.wire = r.wire]
               ELSE \E e \in {CASE hs.state.tag = "Ping" ->
                                expect_simple(r, hs.info, STR_PONG,
                                    "Invalid response from server, expected PONG in simple string format.")
                          [] hs.state.tag = "RequestPsync" ->
                                expect_full_resync(r, hs.info)
                          [] OTHER ->
                                expect_simple(r, hs.info, STR_OK,
                                    "Invalid response from server, expected OK in simple string format.")} :
                        on_expect(r, e)
           on_rdb(r) ==
               hs' = [ReplicationProtocol_handle_event(hs, expect_rdb(r, hs.info).event)
                      EXCEPT !.read_buf = r.read_buf, !.pc = "loop"]
       IN  IF hs.state.tag = "FullResync"
           THEN \E r \in {read_rdb_buffer(hs.read_buf)} : on_rdb(r)
           ELSE \E r \in {read_message_buffered(hs.read_buf, hs.wire)} : on_message(r)
    /\ handshake_unchanged

\* The master writes the next frame of its answer to a request it has
\* received and not answered in full.
MasterSend ==
    /\ hs.answered < Len(hs.out)
    /\ hs.answered < Len(hs.master.bursts)
    /\ LET frames == hs.master.bursts[hs.answered + 1]
       IN  hs' = [hs EXCEPT !.wire = @ \o frames[hs.burst + 1],
                            !.burst = IF hs.burst + 1 = Len(frames) THEN 0 ELSE @ + 1,
                            !.answered = IF hs.burst + 1 = Len(frames) THEN @ + 1
                                         ELSE @]
    /\ handshake_unchanged

InitHandshake ==
    /\ InitServer({1}, 0)
    /\ hs \in {ReplicationProtocol_new(port, master) :
                  port \in {STR_PORT, STR_PORT_2}, master \in Masters}
    /\ codec = Codec_new
    /\ framed = Framed_new

NextHandshake ==
    \/ ProtocolLoop
    \/ ClientRead
    \/ ProtocolResponse
    \/ MasterSend

SpecHandshake == InitHandshake /\ [][NextHandshake]_vars

\* The task of the replica is scheduled whenever it can run, and the master
\* goes on with its script.
SpecHandshakeFair == SpecHandshake /\ WF_vars(NextHandshake)

\* ------------------------------------------------------------------------
\* The transition function on every state and event
\* ------------------------------------------------------------------------
MaxEvents == 2

ErrorMessages ==
    {"Invalid State Transition", "Invalid state, no response handler found.",
     "Invalid response from server, expected rdb file."}
ReplClientStates ==
    {ReplClientState(tag) :
        tag \in {"Initial", "Ping", "NotifyListeningPort", "NotifyCapabilities",
                 "RequestPsync", "FullResync", "ReplicationStart"}}
    \cup {ProtocolError(m) : m \in ErrorMessages}
ReplicationEventsAll ==
    {ReplicationEvents(tag) :
        tag \in {"Start", "RecievedPong", "ReceivedOk", "ReceivedFullResync",
                 "ReceivedRDB", "ReceivedAck"}}
    \cup {ProtocolError(m) : m \in ErrorMessages}

\* ReplicationProtocol::handle_event on any event
HandleEvent(event) ==
    /\ hs.n < MaxEvents
    /\ hs' = ReplicationProtocol_handle_event(hs, event)
    /\ handshake_unchanged

InitTable ==
    /\ InitServer({1}, 0)
    /\ hs \in {[ReplicationProtocol_new(STR_PORT, NoMaster) EXCEPT !.state = s] :
                  s \in ReplClientStates}
    /\ codec = Codec_new
    /\ framed = Framed_new

NextTable == \E event \in ReplicationEventsAll : HandleEvent(event)

SpecTable == InitTable /\ [][NextTable]_vars

\* The table of the handshake: (state, event) to the state it advances to
HandshakeTable ==
    {<<"Initial", "Start", "Ping">>,
     <<"Ping", "RecievedPong", "NotifyListeningPort">>,
     <<"NotifyListeningPort", "ReceivedOk", "NotifyCapabilities">>,
     <<"NotifyCapabilities", "ReceivedOk", "RequestPsync">>,
     <<"RequestPsync", "ReceivedFullResync", "FullResync">>,
     <<"FullResync", "ReceivedRDB", "ReplicationStart">>}

\* The last handle_event followed `table` where it has a row for the pair
\* and gave ProtocolError everywhere else, from ProtocolError included
FollowsTable(table) ==
    hs.n > 0 =>
        /\ \A row \in table :
              hs.prev.tag = row[1] /\ hs.event.tag = row[2]
                  => hs.state = ReplClientState(row[3])
        /\ (\A row \in table : ~(hs.prev.tag = row[1] /\ hs.event.tag = row[2]))
              => hs.state.tag = "ProtocolError"
        /\ hs.prev.tag = "ProtocolError" => hs.state.tag = "ProtocolError"

\* C19 as written: the transition function advances only along Initial ->
\* Ping -> NotifyListeningPort -> NotifyCapabilities -> RequestPsync ->
\* FullResync -> ReplicationStart on Start, pong, ok, ok, full-resync and
\* snapshot received; every other (state, event) pair yields ProtocolError,
\* and no event leaves ProtocolError.
C19_OnlyTableAdvances == FollowsTable(HandshakeTable)

\* C19, amended: the same, with one more row: an ack received in
\* ReplicationStart stays in ReplicationStart.
C19_TableWithAck ==
    FollowsTable(HandshakeTable
                 \cup {<<"ReplicationStart", "ReceivedAck", "ReplicationStart">>})

\* An ack has been handled in ReplicationStart after the last row of the
\* table was taken
C19_Witness ==
    /\ hs.n = 2
    /\ hs.prev = ReplClientState("ReplicationStart")
    /\ hs.event = ReplicationEvents("ReceivedAck")
    /\ hs.state = ReplClientState("ReplicationStart")

\* The requests of the handshake, in their order
HandshakeRequests ==
    <<REQ_PING,
      RequestBuilder_build(<<STR_REPLCONF, STR_listening_port, hs.listening_port>>),
      REQ_REPLCONF_CAPA, REQ_PSYNC>>

\* The requests written so far are the first of the handshake's, each written
\* after a reply to the one before it was read
HandshakeInOrder ==
    /\ Len(hs.out) <= Len(HandshakeRequests)
    /\ \A i \in 1..Len(hs.out) : hs.out[i] = HandshakeRequests[i]
    /\ Len(hs.out) <= hs.recv + 1

HandshakeDone ==
    /\ hs.pc = "done"
    /\ hs.state = ReplClientState("ReplicationStart")
    /\ hs.info = [master_replid |-> hs.master.id, master_repl_offset |-> hs.master.off]

\* C20: against a master that answers each request of the handshake with the
\* expected reply, the replica writes PING, REPLCONF listening-port <port>,
\* REPLCONF capa psync2 and PSYNC <replid> <offset> in that order, each after
\* the reply to the one before, and start eventually returns in
\* ReplicationStart with the id and the offset of the master in its info.
C20_HandshakeCompletes ==
    hs.master \in ScriptedMasters => ([]HandshakeInOrder /\ <>HandshakeDone)

\* ------------------------------------------------------------------------
\* The replica's link to its master after the handshake (listener.rs,
\* replicate_before_listen; context.rs, replica_exec_all)
\* ------------------------------------------------------------------------
\* Frames the master sends once its part of the handshake is over
inbound_unchanged ==
    UNCHANGED master_vars /\ UNCHANGED <<rdb, rconn, rpos, roffset, rpc, codec, framed>>

\* replicate_before_listen after protocol.start().await: `?` returns on an
\* Err and the Connection is dropped; on Ok(()), whatever state the protocol
\* ended in, listen_all spawns handle_all on the Connection.
ReplicateBeforeListen ==
    /\ inb.pc = "handshake"
    /\ hs.pc \in {"done", "failed", "panic"}
    /\ inb' = [inb EXCEPT !.pc = CASE hs.pc = "done" -> "read"
                                   [] hs.pc = "failed" -> "closed"
                                   [] OTHER -> "panic",
                          !.learned = hs.info.master_repl_offset]
    /\ UNCHANGED hs
    /\ inbound_unchanged

\* The master writes one more frame on the link.
MasterForward(raw) ==
    /\ hs.answered = Len(hs.master.bursts)
    /\ inb.nfwd < MaxForward
    /\ inb.pc # "closed"
    /\ hs' = [hs EXCEPT !.wire = @ \o raw]
    /\ inb' = [inb EXCEPT !.nfwd = @ + 1]
    /\ inbound_unchanged

\* One iteration of replica_exec_all: read_message, then the command; a
\* read_message that fails ends the task.
InboundRead ==
    /\ inb.pc = "read"
    /\ LET on_exec(r, len, s) ==
               /\ hs' = [hs EXCEPT !.read_buf = r.read_buf, !.wire = r.wire,
                                   !.info.master_repl_offset = s.offset]
               /\ inb' = [inb EXCEPT !.conn = s.conn, !.db = s.db, !.pc = s.pc,
                                     !.msg_len = len, !.consumed = @ + len]
           on_len(r, len) ==
               \E s \in {replica_exec(inb.conn, inb.db, now, r.val, len,
                                      hs.info.master_repl_offset)} :
                   on_exec(r, len, s)
           on_message(r) ==
               CASE r.st = "wait" ->
                       /\ hs.wire # <<>>
                       /\ hs' = [hs EXCEPT !.read_buf = r.read_buf, !.wire = r.wire]
                       /\ UNCHANGED inb
                 [] r.st = "ok" ->
                       on_len(r, Len(hs.read_buf) + Len(hs.wire)
                                 - Len(r.read_buf) - Len(r.wire))
                 [] r.st = "err" ->
                       /\ hs' = [hs EXCEPT !.read_buf = r.read_buf, !.wire = r.wire]
                       /\ inb' = [inb EXCEPT
                                     !.conn = Connection_write_err(@, ERR_PROTOCOL,
                                                                   NoFail).conn,
                                     !.pc = "closed"]
                 [] OTHER ->
                       /\ hs' = [hs EXCEPT !.read_buf = r.read_buf, !.wire = r.wire]
                       /\ inb' = [inb EXCEPT !.pc = "panic"]
       IN  \E r \in {read_message_buffered(hs.read_buf, hs.wire)} : on_message(r)
    /\ inbound_unchanged

\* RedisClient::repl_conf after the write of REPLCONF ACK: read_and_parse
\* on the socket; its result is discarded by ReplconfCommand::execute, and
\* the iteration of replica_exec_all ends with the offset of its frame.
InboundAckRead ==
    /\ inb.pc = "getack"
    /\ hs.wire # <<>>
    /\ LET on_read(r) ==
               /\ hs' = [hs EXCEPT !.wire = <<>>,
                                   !.info.master_repl_offset =
                                       IF r.st = "ok" THEN @ + inb.msg_len ELSE @]
               /\ inb' = [inb EXCEPT !.buf = r.buf, !.consumed = @ + Len(hs.wire),
                                     !.pc = CASE r.st = "ok" -> "read"
                                              [] r.st = "panic" -> "panic"
                                              [] OTHER -> "getack"]
       IN  on_read(read_and_parse(inb.buf, hs.wire))
    /\ inbound_unchanged

\* The masters of the handshake: one the handshake completes with, and the
\* ones that answer PING out of protocol
InboundMasters == {RepeatingMaster(STR_abc, 7)} \cup {m \in FaultyMasters : m.id = <<>>}

InitInbound ==
    /\ InitServer({1}, 0)
    /\ hs \in {ReplicationProtocol_new(STR_PORT, master) : master \in InboundMasters}
    /\ codec = Codec_new
    /\ framed = Framed_new

NextInbound ==
    \/ ProtocolLoop
    \/ ClientRead
    \/ ProtocolResponse
    \/ MasterSend
    \/ ReplicateBeforeListen
    \/ \E raw \in InboundMenu : MasterForward(raw)
    \/ InboundRead
    \/ InboundAckRead

SpecInbound == InitInbound /\ [][NextInbound]_vars

\* C21: a handshake that ends in ProtocolError leaves the link closed: the
\* replica's dispatcher never runs on it and the keyspace of the replica
\* stays as it was.
C21_FailedHandshakeClosesLink ==
    hs.state.tag = "ProtocolError"
        => inb.pc \in {"handshake", "closed"} /\ inb.db = Database_new

\* ------------------------------------------------------------------------
\* Properties of the master's side of the handshake
\* ------------------------------------------------------------------------
\* What the master writes for PSYNC: the reply as a bulk string, then the
\* length header and the snapshot, no CRLF after it
FULLRESYNC_AND_SNAPSHOT ==
    encode_bulk_string(STR_FULLRESYNC \o <<SPACE>> \o info_master_replid \o <<SPACE>>
                       \o to_string(info_master_repl_offset))
    \o <<36>> \o to_string(Len(get_empty_rdb_file)) \o CRLF \o get_empty_rdb_file

\* Specification of the master's side of the handshake: connections that
\* ask to replicate, and answer the handshake in or out of protocol
MaxAttachRequests == 4

InitAttach == InitWith({1, 2}, MaxAttachRequests)

AttachMenu == {REQ_REPLCONF_PORT, REQ_PSYNC}

AttachHandshakeMenu == {REQ_REPLCONF_CAPA, REQ_PSYNC, FRAME_BAD_LENGTH}

NextAttach ==
    \/ \E c \in DOMAIN pc, raw \in AttachMenu : Request(c, raw)
    \/ \E c \in DOMAIN pc, raw \in AttachHandshakeMenu : HandshakeRead(c, raw)
    \/ \E c \in DOMAIN pc : AddReplica(c)

SpecAttach == InitAttach /\ [][NextAttach]_vars

\* C22: the master answers REPLCONF listening-port with +OK, REPLCONF capa
\* psync2 with +OK and PSYNC with the FULLRESYNC reply and the snapshot, and
\* nothing else; while its socket works, a connection is classified
\* Replicate only by the step that has sent the snapshot.
C22_HandshakeWritesInOrder ==
    [][\A c \in DOMAIN pc :
          /\ (pc[c] = "read" /\ pc'[c] = "hs_capa")
                => conn'[c].sent = encode_simple_string(STR_OK)
          /\ (pc[c] = "hs_capa" /\ pc'[c] = "hs_psync")
                => conn'[c].sent = encode_simple_string(STR_OK)
          /\ (pc[c] # "attach" /\ pc'[c] = "attach" /\ conn'[c].sock_ok)
                => conn'[c].sent = FULLRESYNC_AND_SNAPSHOT
      ]_vars

\* ------------------------------------------------------------------------
\* Properties of the replica's link to its master
\* ------------------------------------------------------------------------
\* REPLCONF ACK <offset> as RequestBuilder builds it, for some offset
IsAck(message) ==
    /\ message.t = "Array"
    /\ Len(message.v) = 3
    /\ message.v[1] = BulkString(STR_REPLCONF)
    /\ message.v[2] = BulkString(STR_ACK)
    /\ message.v[3].t = "BulkString"
    /\ parse_i64(message.v[3].v).ok

\* The bytes are REPLCONF ACK frames, one after the other, and nothing else
RECURSIVE OnlyAcks(_)
OnlyAcks(bytes) ==
    LET on_parse(r) ==
            /\ r.ok
            /\ IsAck(r.val)
            /\ OnlyAcks(SubSeq(bytes, r.pos, Len(bytes)))
    IN  bytes = <<>> \/ on_parse(parse(bytes, 1))

\* C23: after a handshake that ended in ReplicationStart, whatever the
\* master sends on the link, the replica writes nothing on it but REPLCONF
\* ACK frames.
C23_OnlyAcksOnLink == hs.state.tag = "ReplicationStart" => OnlyAcks(inb.conn.sent)

\* C24: whenever the replica is about to read the next frame, its
\* master_repl_offset is the offset the handshake left plus the bytes it
\* has taken from the link since.
C24_OffsetCountsConsumedBytes ==
    (hs.state.tag = "ReplicationStart" /\ inb.pc = "read")
        => hs.info.master_repl_offset = inb.learned + inb.consumed

\* The frame read_message returns next on the link is REPLCONF GETACK
GetAckIsNext ==
    LET on_cmd(cmd) == cmd.c = "ReplConf" /\ cmd.args.kind = "GetAck"
        on_message(r) == r.st = "ok" /\ on_cmd(CmdParser_parse(r.val))
    IN  on_message(read_message_buffered(hs.read_buf, hs.wire))

\* C25: the iteration that reads REPLCONF GETACK leaves the write gate open
\* and adds to the bytes written on the link exactly one frame, REPLCONF
\* ACK with the master_repl_offset the replica had when the frame was read.
C25_GetAckAnsweredWithOffset ==
    [][(InboundRead /\ GetAckIsNext) =>
          /\ inb'.conn.writable
          /\ inb'.conn.sent =
                 inb.conn.sent
                 \o RequestBuilder_build(
                        <<STR_REPLCONF, STR_ACK,
                          to_string(hs.info.master_repl_offset)>>)
      ]_vars

\* GETACK was answered by a replica that had applied a SET before it: the
\* ACK carries the handshake's offset plus the bytes of SET k 1
C25_Witness ==
    /\ hs.state.tag = "ReplicationStart"
    /\ inb.pc = "getack"
    /\ KEY_K \in DOMAIN inb.db.store
    /\ inb.conn.sent = RequestBuilder_build(
                           <<STR_REPLCONF, STR_ACK, to_string(inb.learned + Len(REQ_SET_K_1))>>)

\* ------------------------------------------------------------------------
\* Specification of the codec: a value is encoded and the bytes parsed, or
\* checked cut short; bytes that encode no value are checked (resp.rs)
\* ------------------------------------------------------------------------
\* Items of an aggregate value of the model
MaxItems == 2

\* RespParser::check: parse, then the cursor is set back to where it was
check(buf, pos) ==
    LET on_parse(res) == IF res.ok THEN Ok(res.val, pos) ELSE res
    IN  on_parse(parse(buf, pos))

STR_HELLO == <<104, 101, 108, 108, 111>>  \* 'hello'
STR_123 == <<49, 50, 51>>  \* '123'

\* One value or more of each variant that is no aggregate
CodecLeaves ==
    {SimpleString(STR_OK), SimpleString(<<>>), SimpleError(ERR_PROTOCOL), Integer(0),
     Integer(0 - 7), Integer(42), BulkString(<<>>), BulkString(STR_HELLO),
     BulkString(<<13, 10>>), BulkStringNull, ArrayNull, Null, Boolean(TRUE),
     Boolean(FALSE), Double(INFINITY), Double(NEG_INFINITY), Double(NAN),
     Double(Finite(FALSE, <<49, 53>>, 0)), Double(Finite(TRUE, <<50>>, 0 - 3)),
     Double(Finite(FALSE, <<>>, 0)), BigNumber(STR_123), BulkError(STR_FOO),
     VerbatimString(STR_HELLO)}

\* What the aggregates of the model hold
CodecItems == {Integer(1), BulkString(KEY_K), Boolean(TRUE), Null, ArrayNull}

CodecAggregates ==
    {Array(a) : a \in Seqs(CodecItems, MaxItems)}
    \cup {Set(a) : a \in Seqs(CodecItems, MaxItems)}
    \cup {Push(a) : a \in Seqs(CodecItems, MaxItems)}
    \cup {Map(m) : m \in Seqs(CodecItems \X CodecItems, MaxItems - 1)}

\* Aggregates inside aggregates
CodecNested ==
    {Array(<<Array(<<Integer(1), BulkString(KEY_K)>>), Array(<<>>)>>),
     Array(<<Map(<<<<SimpleString(STR_OK), Set(<<Integer(1)>>)>>>>)>>),
     Map(<<<<BulkString(KEY_K), Array(<<Double(NAN), Null>>)>>>>),
     Push(<<Array(<<Boolean(FALSE)>>), Integer(1)>>)}

CodecValues == CodecLeaves \cup CodecAggregates \cup CodecNested


\* Bytes that are the encoding of no value
InvalidEncodings ==
    {FRAME_BAD_TYPE, FRAME_BAD_LENGTH, FRAME_NEG_LENGTH, FRAME_CR_NO_LF,
     FRAME_BAD_INTEGER, FRAME_BAD_BOOLEAN, FRAME_BAD_DOUBLE, FRAME_NEG_MAP,
     FRAME_NEG_SET, FRAME_NULL_BULK_ERROR, FRAME_NULL_VERBATIM, FRAME_NULL_PUSH,
     FRAME_BULK_NO_CRLF, FRAME_NOT_UTF8, FRAME_ARRAY_BAD_ITEM,
     FRAME_EMPTY_BULK_NO_CRLF}

codec_unchanged ==
    UNCHANGED master_vars /\ UNCHANGED <<rdb, rconn, rpos, roffset, rpc, hs, inb, framed>>

\* RespEncoder::encode
Encode ==
    /\ codec.pc = "value"
    /\ codec' = [codec EXCEPT !.pc = "encoded", !.bytes = encode_resp(codec.v)]
    /\ codec_unchanged

\* RespParser::parse on the encoding
Parse ==
    /\ codec.pc = "encoded"
    /\ codec' = [codec EXCEPT !.pc = "parsed", !.res = parse(codec.bytes, 1)]
    /\ codec_unchanged

\* RespParser::check on the first n bytes of the encoding
CheckPrefix(n) ==
    /\ codec.pc = "encoded"
    /\ codec' = [codec EXCEPT !.pc = "prefix", !.bytes = SubSeq(@, 1, n),
                              !.res = check(SubSeq(codec.bytes, 1, n), 1)]
    /\ codec_unchanged

\* RespParser::check on bytes that encode no value
CheckInvalid ==
    /\ codec.pc = "invalid"
    /\ codec' = [codec EXCEPT !.pc = "checked", !.res = check(codec.bytes, 1)]
    /\ codec_unchanged

InitCodec ==
    /\ InitServer({1}, 0)
    /\ hs = ReplicationProtocol_new(STR_PORT, NoMaster)
    /\ framed = Framed_new
    /\ codec \in {[Codec_new EXCEPT !.pc = "value", !.v = v] : v \in CodecValues}
                 \cup {[Codec_new EXCEPT !.pc = "invalid", !.bytes = b] :
                          b \in InvalidEncodings}

NextCodec ==
    \/ Encode
    \/ Parse
    \/ \E n \in 0..(Len(codec.bytes) - 1) : CheckPrefix(n)
    \/ CheckInvalid

SpecCodec == InitCodec /\ [][NextCodec]_vars

\* C28: parsing the encoding of a value gives the value back.
C28_RoundTrip ==
    codec.pc = "parsed" => (codec.res.ok /\ codec.res.val = codec.v)

\* C29: check on a proper prefix of the encoding of a value fails with
\* UnexpectedEndOfInput.
C29_PrefixIsIncomplete ==
    codec.pc = "prefix" => (~codec.res.ok /\ codec.res.err = "UnexpectedEndOfInput")

\* C30: check on bytes that encode no value fails with an error that is not
\* UnexpectedEndOfInput; it does not panic and it returns no value.
C30_InvalidIsFatalError ==
    codec.pc = "checked" =>
        (~codec.res.ok /\ codec.res.err \notin {"UnexpectedEndOfInput", "panic"})

\* ------------------------------------------------------------------------
\* Specification of malformed input: connections that send frames no value
\* encodes, as requests and in the handshake of a replica
\* ------------------------------------------------------------------------
MaxMalformedRequests == 4

\* Frames on which check fails with an error that is not UnexpectedEndOfInput
MalformedFrames ==
    {FRAME_BAD_LENGTH, FRAME_CR_NO_LF, FRAME_BAD_INTEGER, FRAME_BAD_BOOLEAN,
     FRAME_BAD_DOUBLE, FRAME_NEG_MAP, FRAME_NEG_SET, FRAME_BULK_NO_CRLF,
     FRAME_NOT_UTF8}

MalformedMenu == MalformedFrames \cup {REQ_SET_K_1, REQ_GET_K, REQ_REPLCONF_PORT}

MalformedHandshakeMenu == MalformedFrames \cup {REQ_REPLCONF_CAPA}

InitMalformed == InitWith({1, 2}, MaxMalformedRequests)

NextMalformed ==
    \/ \E c \in DOMAIN pc, raw \in MalformedMenu : Request(c, raw)
    \/ \E c \in DOMAIN pc, raw \in MalformedHandshakeMenu : HandshakeRead(c, raw)
    \/ \E c \in DOMAIN pc : AddReplica(c)

SpecMalformed == InitMalformed /\ [][NextMalformed]_vars

\* States of a connection whose dispatcher has returned
DispatcherOver == {"closed", "attach", "replica"}

\* C27: a read of a malformed frame writes the one frame
\* -ERR RESP Protocol Error and ends the dispatcher of the connection, the
\* database untouched; a dispatcher that has ended stays ended and executes
\* no request.
C27_MalformedEndsDispatcher ==
    [][\A c \in DOMAIN pc :
          /\ \A raw \in MalformedFrames :
                (Request(c, raw) \/ HandshakeRead(c, raw))
                    => /\ conn'[c].sent = encode_simple_error(ERR_PROTOCOL)
                       /\ pc'[c] \in DispatcherOver
                       /\ db' = db
          /\ pc[c] \in DispatcherOver
                => /\ pc'[c] \in DispatcherOver
                   /\ \A raw \in AllFrames : ~Request(c, raw)
      ]_vars

\* A connection closed on the error frame, on a master that has executed a SET
C27_Witness ==
    \E c \in DOMAIN pc :
        /\ pc[c] = "closed"
        /\ conn[c].sent = encode_simple_error(ERR_PROTOCOL)
        /\ KEY_K \in DOMAIN db.store

\* ------------------------------------------------------------------------
\* Specification of framing: a stream of frames reaches a Connection in
\* reads of any size
\* ------------------------------------------------------------------------
MaxFrames == 2

FRAME_INT_1 == encode_resp(Integer(1))
FRAME_BULK_K == encode_resp(BulkString(KEY_K))
FRAME_TRUE == encode_resp(Boolean(TRUE))
FRAME_ARRAY_K == encode_resp(Array(<<BulkString(KEY_K), Null>>))

\* The frames of the streams
FramedMenu == {REPLY_PONG, FRAME_INT_1, FRAME_BULK_K, FRAME_TRUE, FRAME_ARRAY_K}

\* Successive calls of read_message until one does not return a value
RECURSIVE read_all(_, _, _)
read_all(read_buf, wire, got) ==
    LET on_message(r) ==
            IF r.st = "ok" THEN read_all(r.read_buf, r.wire, Append(got, r.val))
            ELSE [got |-> got, pc |-> CASE r.st = "wait" -> "read"
                                       [] r.st = "panic" -> "panic"
                                       [] OTHER -> "closed"]
    IN  on_message(read_message_buffered(read_buf, wire))

framed_unchanged ==
    UNCHANGED master_vars /\ UNCHANGED <<rdb, rconn, rpos, roffset, rpc, hs, inb, codec>>

\* The socket receives the next n bytes of the stream
Deliver(n) ==
    /\ framed.pc = "read"
    /\ framed.wire = <<>>
    /\ n \in 1..Len(framed.stream)
    /\ framed' = [framed EXCEPT !.wire = SubSeq(framed.stream, 1, n),
                                !.stream = SubSeq(@, n + 1, Len(@))]
    /\ framed_unchanged

\* Connection::read_message, as far as the bytes at hand take it: a value
\* is returned, or the bytes of the socket are in read_buf and the call
\* waits for more
FramedRead ==
    /\ framed.pc = "read"
    /\ LET on_message(r) ==
               CASE r.st = "ok" ->
                       framed' = [framed EXCEPT !.got = Append(@, r.val),
                                                !.read_buf = r.read_buf,
                                                !.wire = r.wire]
                 [] r.st = "wait" ->
                       /\ framed.wire # <<>>
                       /\ framed' = [framed EXCEPT !.read_buf = r.read_buf,
                                                   !.wire = r.wire, !.cut = TRUE]
                 [] r.st = "panic" -> framed' = [framed EXCEPT !.pc = "panic"]
                 [] OTHER -> framed' = [framed EXCEPT !.pc = "closed"]
       IN  on_message(read_message_buffered(framed.read_buf, framed.wire))
    /\ framed_unchanged

FramedStreams == {Concat(f, 1, Len(f)) : f \in Seqs(FramedMenu, MaxFrames)}

InitFramed ==
    /\ InitServer({1}, 0)
    /\ hs = ReplicationProtocol_new(STR_PORT, NoMaster)
    /\ codec = Codec_new
    /\ framed \in {[Framed_new EXCEPT !.pc = "read", !.stream = s,
                                       !.whole = read_all(<<>>, s, <<>>)] :
                       s \in FramedStreams}

NextFramed ==
    \/ \E n \in 1..Len(framed.stream) : Deliver(n)
    \/ FramedRead

SpecFramed == InitFramed /\ [][NextFramed]_vars

\* s is the first Len(s) items of t
IsPrefix(s, t) == Len(s) <= Len(t) /\ s = SubSeq(t, 1, Len(s))

\* No step is left to the reader: the stream is delivered and read_message
\* waits on an empty socket, or the task is over
FramedDone ==
    \/ framed.pc \in {"panic", "closed"}
    \/ /\ framed.pc = "read"
       /\ framed.stream = <<>>
       /\ framed.wire = <<>>
       /\ read_message_buffered(framed.read_buf, <<>>).st = "wait"

\* C26: however the stream is split into reads, the values read_message
\* has returned are the first ones of those it returns when the stream
\* comes in one read, and all of them, with the same end, once the stream
\* is read.
C26_SplitReadsSameValues ==
    /\ framed.pc # "idle" => IsPrefix(framed.got, framed.whole.got)
    /\ (framed.pc # "idle" /\ FramedDone)
          => (framed.got = framed.whole.got /\ framed.pc = framed.whole.pc)

\* A stream of two frames, read to its end through a read that stopped
\* inside a frame
C26_Witness ==
    /\ framed.pc = "read"
    /\ FramedDone
    /\ framed.cut
    /\ Len(framed.got) = 2
    /\ framed.got = framed.whole.got

\* ------------------------------------------------------------------------
\* Properties of the cursor
\* ------------------------------------------------------------------------
\* C31: a parse that returns a value leaves the cursor behind the last byte
\* of the encoding of the value, its CRLF included.
C31_ParseConsumesWholeFrame ==
    (codec.pc = "parsed" /\ codec.res.ok) => codec.res.pos = Len(codec.bytes) + 1

\* C32: the bulk length -1 gives the null bulk string, the length 0 the
\* empty string, which the CRLF must still follow, and a negative length
\* that is not -1 fails with InvalidLength.
C32_BulkLengths ==
    /\ (codec.pc = "parsed" /\ codec.bytes = <<36, 45, 49, 13, 10>>)
          => (codec.res.ok /\ codec.res.val = BulkStringNull)
    /\ (codec.pc = "parsed" /\ codec.bytes = <<36, 48, 13, 10, 13, 10>>)
          => (codec.res.ok /\ codec.res.val = BulkString(<<>>))
    /\ (codec.pc = "checked" /\ codec.bytes = FRAME_EMPTY_BULK_NO_CRLF)
          => (~codec.res.ok /\ codec.res.err = "InvalidByte")
    /\ (codec.pc = "checked" /\ codec.bytes = FRAME_NEG_LENGTH)
          => (~codec.res.ok /\ codec.res.err = "InvalidLength")

\* ------------------------------------------------------------------------
\* Properties of the snapshot transfer
\* ------------------------------------------------------------------------
\* The bytes of the link the replica has not consumed: those of read_buf,
\* those in the socket and those its master has yet to write
Unread(h) ==
    LET frames == Flatten(h.master.bursts)
        sent == Len(Flatten(SubSeq(h.master.bursts, 1, h.answered))) + h.burst
    IN  h.read_buf \o h.wire \o Concat(frames, sent + 1, Len(frames))

\* C33: read_rdb takes the length header and the bytes of the snapshot,
\* and nothing else, off the link: what the master sends after the snapshot
\* is what the next read_message starts on.
C33_SnapshotConsumedExactly ==
    [][(ProtocolResponse /\ hs.state.tag = "FullResync"
            /\ hs.master = RepeatingMaster(STR_abc, 7))
          => Unread(hs) = REPLY_SNAPSHOT \o Unread(hs')]_vars

\* ------------------------------------------------------------------------
\* Properties of the ledger mutex
\* ------------------------------------------------------------------------
\* C34: add_write runs under the mutex from the append to the last replica
\* of the loop.  One writer at most is inside add_write; the ledger grows
\* and the list of replicas changes only when the mutex is taken, so no
\* replica is added while a fan-out runs; and what the socket of a replica
\* has accepted is the ledger from its start_offset on, byte for byte, the
\* writes one after the other.
C34_LedgerSerialized ==
    /\ [](\A c \in DOMAIN pc : pc[c] = "fanout" => lock = c)
    /\ [](\A i \in 1..Len(repls) :
             IsPrefix(Forwarded(repls[i]),
                      SubSeq(write_history, repls[i].start_offset + 1,
                             Len(write_history))))
    /\ [][/\ Len(repls') # Len(repls) => (lock = NoConn /\ lock' = NoConn)
          /\ write_history' # write_history => (lock = NoConn /\ lock' # NoConn)
          /\ (lock # NoConn /\ lock' # NoConn) => lock' = lock]_vars

\* A writer in the middle of its fan-out, the first replica served, while a
\* connection waits to be added and another writer waits for the mutex
C34_Witness ==
    \E c, d \in DOMAIN pc :
        /\ pc[c] = "fanout"
        /\ lock = c
        /\ fan_i = 2
        /\ Len(repls) >= 1
        /\ pc[d] \in {"attach", "write"}

\* ------------------------------------------------------------------------
\* Specification of replacement: a client (connection 1) that stores k with
\* a ttl, stores it again without one and reads it while the clock runs,
\* beside a connection that asks to replicate
\* ------------------------------------------------------------------------
MaxReplaceRequests == 4

InitReplace == InitWith({1, 2}, MaxReplaceRequests)

ReplaceMenu == {REQ_SET_K_1_PX_2, REQ_SET_K_2, REQ_GET_K}

NextReplace ==
    \/ \E raw \in ReplaceMenu : Request(1, raw)
    \/ \E c \in DOMAIN pc \ {1} : Request(c, REQ_PSYNC)
    \/ \E c \in DOMAIN pc : AddReplica(c)
    \/ \E c \in DOMAIN pc : AddWriteBegin(c)
    \/ \E c \in DOMAIN pc : AddWriteFanOut(c)
    \/ \E c \in DOMAIN pc : AddWriteEnd(c)
    \/ Tick

SpecReplace == InitReplace /\ [][NextReplace]_vars

\* The last write the master has executed is `raw`
LastCommitted(raw) ==
    /\ Len(commit_raw) >= Len(raw)
    /\ SubSeq(commit_raw, Len(commit_raw) - Len(raw) + 1, Len(commit_raw)) = raw

\* C35: SET k 2 without EX or PX leaves k with a record that has no
\* expiry, whatever record k had; and while that SET is the last write, GET
\* k replies 2 at every instant and changes nothing.
C35_SetReplacesExpiry ==
    [][/\ Request(1, REQ_SET_K_2)
            => /\ KEY_K \in DOMAIN db'.store
               /\ db'.store[KEY_K] = Record_from_vec(VAL_2)
               /\ KEY_K \notin DOMAIN db'.ttl
       /\ (Request(1, REQ_GET_K) /\ LastCommitted(REQ_SET_K_2))
            => /\ conn'[1].sent = encode_bulk_string(VAL_2)
               /\ db' = db]_vars

\* SET k 1 PX 2, SET k 2, and GET k answered 2 with the clock at its last
\* instant
C35_Witness ==
    /\ pc[1] = "read"
    /\ now = MaxNow
    /\ budget = MaxReplaceRequests - 3
    /\ commit_raw = REQ_SET_K_1_PX_2 \o REQ_SET_K_2
    /\ conn[1].sent = encode_bulk_string(VAL_2)
    /\ db.store[KEY_K] = Record_from_vec(VAL_2)

\* ------------------------------------------------------------------------
\* Specification of the keyspace under two connections whose tasks run on
\* two threads of the runtime: a command that calls the Database twice takes
\* its lock twice, and the other task can run in between
\* ------------------------------------------------------------------------
MaxRaceRequests == 4

\* SET k <v> NX as connection c sends it
NxFrame(c) == IF c = 1 THEN REQ_SET_K_3_NX ELSE REQ_SET_K_2_NX

\* master_exec_all up to the end of `database.exists(&key)` in the NX arm of
\* SetCommand::execute: the key exists and null bulk is replied, or the
\* task goes on to database.set
SetNxExists(c) ==
    /\ pc[c] = "read"
    /\ budget > 0
    /\ LET on_message(m, cmd) ==
               IF Database_exists(db, cmd.args.key)
               THEN /\ conn' = [conn EXCEPT ![c] =
                                  Connection_write_message(m.conn, BulkStringNull,
                                                           NoFail).conn]
                    /\ UNCHANGED <<pc, msg>>
               ELSE /\ conn' = [conn EXCEPT ![c] = m.conn]
                    /\ pc' = [pc EXCEPT ![c] = "nx_set"]
                    /\ msg' = [msg EXCEPT ![c] = [message |-> m.val,
                                                   raw |-> NxFrame(c)]]
           on_read(m) == on_message(m, CmdParser_parse(m.val))
       IN  on_read(read_message([conn[c] EXCEPT !.sent = <<>>], NxFrame(c)))
    /\ budget' = budget - 1
    /\ UNCHANGED <<db, now, write_history, repls, lock, fan_i, mark, appended_raw,
                   commit_raw>>
    /\ UNCHANGED replica_vars

\* The NX arm from `database.set(key, value)` on: the insert, the reply,
\* Transaction::Write
SetNxInsert(c) ==
    /\ pc[c] = "nx_set"
    /\ LET on_args(args) ==
               /\ db' = Database_set(db, args.key, args.value).db
               /\ conn' = [conn EXCEPT ![c] =
                             IF args.get
                             THEN Connection_write_message(@, BulkStringNull, NoFail).conn
                             ELSE Connection_write_str(@, STR_OK, NoFail).conn]
       IN  on_args(CmdParser_parse(msg[c].message).args)
    /\ pc' = [pc EXCEPT ![c] = "write"]
    /\ commit_raw' = commit_raw \o msg[c].raw
    /\ UNCHANGED <<now, write_history, repls, lock, fan_i, msg, mark, budget,
                   appended_raw>>
    /\ UNCHANGED replica_vars

\* master_exec_all up to the end of `payload.has_expired()` in
\* GetCommand::execute: the reply is written, or the record has expired and
\* the task goes on to database.del
GetRead(c) ==
    /\ pc[c] = "read"
    /\ budget > 0
    /\ LET on_get(m, value) ==
               /\ db' = value.db
               /\ IF ~value.val.some
                  THEN /\ conn' = [conn EXCEPT ![c] =
                                     Connection_write_message(m.conn, BulkStringNull,
                                                              NoFail).conn]
                       /\ UNCHANGED <<pc, msg>>
                  ELSE IF Record_has_expired(value.val.val, now)
                  THEN /\ conn' = [conn EXCEPT ![c] = m.conn]
                       /\ pc' = [pc EXCEPT ![c] = "get_del"]
                       /\ msg' = [msg EXCEPT ![c] = [message |-> m.val,
                                                      raw |-> REQ_GET_K]]
                  ELSE /\ conn' = [conn EXCEPT ![c] =
                                     Connection_write_bytes(m.conn, value.val.val.data,
                                                            NoFail).conn]
                       /\ UNCHANGED <<pc, msg>>
           on_read(m) ==
               on_get(m, Database_get(db, CmdParser_parse(m.val).args.key, now))
       IN  on_read(read_message([conn[c] EXCEPT !.sent = <<>>], REQ_GET_K))
    /\ budget' = budget - 1
    /\ UNCHANGED <<now, write_history, repls, lock, fan_i, mark, appended_raw,
                   commit_raw>>
    /\ UNCHANGED replica_vars

\* GetCommand::execute from `database.del(&key)` on: the key is removed,
\* null bulk replied, Transaction::Read
GetDel(c) ==
    /\ pc[c] = "get_del"
    /\ db' = Database_del(db, CmdParser_parse(msg[c].message).args.key)
    /\ conn' = [conn EXCEPT ![c] =
                  Connection_write_message(@, BulkStringNull, NoFail).conn]
    /\ pc' = [pc EXCEPT ![c] = "read"]
    /\ msg' = [msg EXCEPT ![c] = NoMsg]
    /\ UNCHANGED <<now, write_history, repls, lock, fan_i, mark, budget,
                   appended_raw, commit_raw>>
    /\ UNCHANGED replica_vars

InitRace == InitWith({1, 2}, MaxRaceRequests)

NextRace ==
    \/ \E c \in DOMAIN pc : SetNxExists(c)
    \/ \E c \in DOMAIN pc : SetNxInsert(c)
    \/ \E c \in DOMAIN pc : GetRead(c)
    \/ \E c \in DOMAIN pc : GetDel(c)
    \/ \E c \in DOMAIN pc : Request(c, REQ_SET_K_1_PX_2)
    \/ \E c \in DOMAIN pc : AddWriteBegin(c)
    \/ \E c \in DOMAIN pc : AddWriteEnd(c)
    \/ Tick

SpecRace == InitRace /\ [][NextRace]_vars

\* C36: the insert of SET k NX finds k absent: of two such requests on an
\* absent key one inserts, and the other does not replace what it stored.
C36_NxInsertsOnAbsentKey ==
    [][\A c \in DOMAIN pc : SetNxInsert(c) => ~Database_exists(db, KEY_K)]_vars

\* C37: the del of a GET that found an expired record removes no record
\* that has not expired.
C37_DelRemovesExpiredOnly ==
    [][\A c \in DOMAIN pc :
          (GetDel(c) /\ KEY_K \in DOMAIN db.store)
              => Record_has_expired(db.store[KEY_K], now)]_vars

\* ------------------------------------------------------------------------
\* Properties of the attach of a replica
\* ------------------------------------------------------------------------
\* C38: while a connection has been sent the snapshot and is not yet in the
\* list of replicas, nothing is appended to the ledger, so that its
\* start_offset leaves out no write made after its snapshot.
C38_NoWriteBeforeAttach ==
    [][\A c \in DOMAIN pc :
          (pc[c] = "attach" /\ conn[c].sock_ok
              /\ conn[c].sent = FULLRESYNC_AND_SNAPSHOT)
              => write_history' = write_history]_vars

\* C39: a connection enters the list of replicas only after the FULLRESYNC
\* reply and the snapshot were written to it, its socket working.
C39_OnlyCompleteHandshakesAttach ==
    [][\A c \in DOMAIN pc :
          AddReplica(c)
              => (conn[c].sock_ok /\ conn[c].sent = FULLRESYNC_AND_SNAPSHOT)]_vars

\* ------------------------------------------------------------------------
\* Liveness of the replica's link
\* ------------------------------------------------------------------------
\* The task of the replica is scheduled whenever it can run; its master
\* writes when it pleases.
SpecInboundFair ==
    /\ SpecInbound
    /\ WF_vars(ProtocolLoop)
    /\ WF_vars(ClientRead)
    /\ WF_vars(ProtocolResponse)
    /\ WF_vars(ReplicateBeforeListen)
    /\ WF_vars(InboundRead)
    /\ WF_vars(InboundAckRead)

\* C40: a SET k 1 that reached the replica behind a REPLCONF GETACK, and is
\* unread while the replica answers the GETACK, is applied to the keyspace
\* of the replica in the end.
C40_WriteAfterGetAckApplied ==
    (/\ hs.master = RepeatingMaster(STR_abc, 7)
     /\ hs.state.tag = "ReplicationStart"
     /\ inb.pc = "getack"
     /\ hs.read_buf \o hs.wire = REQ_SET_K_1)
        ~> (KEY_K \in DOMAIN inb.db.store)

====
